---- MODULE Spec2Model ----
(***************************************************************************)
(* Model of WinOperationAuto: the raw-input dispatch of main.cpp, the      *)
(* special-key gesture tracking and suggestion workflow of                 *)
(* special_keys.cpp and the visible state of suggestion_overlay.cpp.       *)
(***************************************************************************)
EXTENDS Integers, Sequences, FiniteSets, TLC

VARIABLES
    pc,                      \* position of main(): "start", "config", "loop", "exit"
    g_running,               \* main.cpp g_running
    s_specialKeys,           \* SpecialKeyHandler::s_specialKeys
    s_specialKeyStates,      \* SpecialKeyHandler::s_specialKeyStates
    s_pendingSuggestion,     \* SpecialKeyHandler::s_pendingSuggestion
    s_hasPendingSuggestion,  \* SpecialKeyHandler::s_hasPendingSuggestion
    overlay,                 \* SuggestionOverlay statics
    injectorInitialized,     \* InputInjector::s_initialized
    calls,                   \* handlers and collaborators invoked by the last event
    ev,                      \* the last event delivered, with what was observed at it
    ghost,                   \* history of the key events delivered, per virtual key
    sendCall,                \* the last call of InputInjector made on its own
    issued,                  \* the synthetic events that call handed to SendInput
    loggerInitialized,       \* EventLogger::s_initialized
    s_shiftPressed,          \* EventLogger::s_shiftPressed
    s_capsLockOn,            \* EventLogger::s_capsLockOn
    logFile,                 \* the lines of input_events.txt
    logCall,                 \* the last call of EventLogger made on its own
    charOut                  \* the last VKeyToChar call and what it returned

vars == <<pc, g_running, s_specialKeys, s_specialKeyStates, s_pendingSuggestion,
          s_hasPendingSuggestion, overlay, injectorInitialized, calls, ev, ghost,
          sendCall, issued, loggerInitialized, s_shiftPressed, s_capsLockOn,
          logFile, logCall, charOut>>

\* The state of main() and of the gesture workflow
mainVars == <<pc, g_running, s_specialKeys, s_specialKeyStates, s_pendingSuggestion,
              s_hasPendingSuggestion, overlay, calls, ev, ghost>>

\* The state of a call of InputInjector
sendVars == <<sendCall, issued>>

\* The state of EventLogger
logVars == <<loggerInitialized, s_shiftPressed, s_capsLockOn, logFile, logCall,
             charOut>>

-----------------------------------------------------------------------------
(* Virtual keys and raw-input flag bits *)

VK_SHIFT == 16
VK_CONTROL == 17
VK_MENU == 18
VK_ESCAPE == 27
VK_A == 65
VK_LWIN == 91

RI_KEY_BREAK == 1
RI_KEY_E0 == 2

\* The keys the keyboard delivers in the model.
Keys == {VK_SHIFT, VK_CONTROL, VK_MENU, VK_ESCAPE, VK_A, VK_LWIN}

\* RAWKEYBOARD.Flags: every combination of RI_KEY_BREAK and RI_KEY_E0.
Flags == 0 .. (RI_KEY_BREAK + RI_KEY_E0)

\* Keys AddSpecialKey is called with while main configures the handler.
AddableKeys == {VK_CONTROL, VK_LWIN}

\* (flags & bit) != 0, for a single-bit mask
HasFlag(flags, bit) == (flags \div bit) % 2 = 1

\* First lines the generator can leave in python_output.txt.
Lines == {"", "a", "b"}

\* What the external generator did: exit code of system(), whether
\* python_output.txt opens, whether getline succeeds, and the line read. The
\* file is looked at only after exit code 0.
GenOutcomes ==
    { g \in [exit : {0, 1}, opened : BOOLEAN, readOk : BOOLEAN, line : Lines] :
        /\ (g.exit # 0 => ~g.opened)
        /\ (~g.opened => ~g.readOk)
        /\ (~g.readOk => g.line = "") }

NoGen == [exit |-> 1, opened |-> FALSE, readOk |-> FALSE, line |-> ""]

MouseButtons == {"LEFT_DOWN", "LEFT_UP", "RIGHT_DOWN", "RIGHT_UP",
                 "MIDDLE_DOWN", "MIDDLE_UP", "NONE"}

-----------------------------------------------------------------------------
(* special_keys.h: SpecialKeyState() *)

SpecialKeyState ==
    [isPressed |-> FALSE, hadInterveningKeys |-> FALSE, pressTimestamp |-> 0,
     pressPosition |-> [x |-> 0, y |-> 0]]

Call(op, arg) == [op |-> op, arg |-> arg]

\* The state the handlers read and write, as one record.
Handler ==
    [keys    |-> s_specialKeys,
     states  |-> s_specialKeyStates,
     pending |-> s_pendingSuggestion,
     has     |-> s_hasPendingSuggestion,
     overlay |-> overlay,
     inj     |-> injectorInitialized,
     calls   |-> <<>>]

(* suggestion_overlay.cpp *)

ShowSuggestion(h, suggestion) ==
    LET h1 == [h EXCEPT !.calls = Append(@, Call("ShowSuggestion", suggestion))]
    IN  IF ~h.overlay.initialized \/ ~h.overlay.window
        THEN h1
        ELSE [h1 EXCEPT !.overlay.current = suggestion, !.overlay.visible = TRUE]

HideSuggestionKeepsWindow(h) ==
    LET h1 == [h EXCEPT !.calls = Append(@, Call("HideSuggestion", ""))]
    IN  IF ~h.overlay.initialized \/ ~h.overlay.window
        THEN h1
        ELSE [h1 EXCEPT !.overlay.current = ""]

HideSuggestionCancelsPending(h) ==
    LET h1 == [h EXCEPT !.calls = Append(@, Call("HideSuggestion", ""))]
    IN  IF ~h.overlay.initialized \/ ~h.overlay.window
        THEN h1
        ELSE [h1 EXCEPT !.overlay.current = "", !.overlay.visible = FALSE,
                        !.pending = "", !.has = FALSE]

HideSuggestion(h) ==
    LET h1 == [h EXCEPT !.calls = Append(@, Call("HideSuggestion", ""))]
    IN  IF ~h.overlay.initialized \/ ~h.overlay.window
        THEN h1
        ELSE [h1 EXCEPT !.overlay.current = "", !.overlay.visible = FALSE]

(* input_injection.cpp: the call as seen by the workflow; accepted is what
   the platform answers to the synthetic events *)

SendTextString(h, text, accepted) ==
    [h     |-> [h EXCEPT !.calls = Append(@, Call("SendTextString", text))],
     success |-> h.inj /\ accepted]

(* special_keys.cpp *)

GetSpecialKeyIndex(keys, vKey) ==
    IF \E i \in 1 .. Len(keys) : keys[i] = vKey
    THEN (CHOOSE i \in 1 .. Len(keys) :
            /\ keys[i] = vKey
            /\ \A j \in 1 .. (i - 1) : keys[j] # vKey) - 1
    ELSE -1

IsSpecialKey(keys, vKey) == GetSpecialKeyIndex(keys, vKey) >= 0

OnLeftCtrlPressedKeepsPending(h, gen) ==
    LET h1 == [h EXCEPT !.calls = Append(Append(@, Call("OnLeftCtrlPressed", "")),
                                         Call("system", ""))]
    IN  IF gen.exit = 0 /\ gen.opened /\ gen.readOk /\ gen.line # ""
        THEN ShowSuggestion([h1 EXCEPT !.pending = gen.line, !.has = TRUE], gen.line)
        ELSE h1

OnLeftCtrlPressed(h, gen) ==
    LET h1 == [h EXCEPT !.calls = Append(Append(@, Call("OnLeftCtrlPressed", "")),
                                         Call("system", ""))]
    IN  IF gen.exit = 0
        THEN IF gen.opened
             THEN IF gen.readOk
                  THEN IF gen.line # ""
                       THEN ShowSuggestion(
                                [h1 EXCEPT !.pending = gen.line, !.has = TRUE],
                                gen.line)
                       ELSE [h1 EXCEPT !.has = FALSE]
                  ELSE [h1 EXCEPT !.has = FALSE]
             ELSE [h1 EXCEPT !.has = FALSE]
        ELSE [h1 EXCEPT !.has = FALSE]

OnRightCtrlPressedClearsOnSuccess(h, accepted) ==
    LET h1 == [h EXCEPT !.calls = Append(@, Call("OnRightCtrlPressed", ""))]
    IN  IF h1.has /\ h1.pending # ""
        THEN LET sent == SendTextString(h1, h1.pending, accepted)
             IN  IF sent.success
                 THEN HideSuggestion([sent.h EXCEPT !.pending = "", !.has = FALSE])
                 ELSE sent.h
        ELSE h1

OnRightCtrlPressedIgnoresFlag(h, accepted) ==
    LET h1 == [h EXCEPT !.calls = Append(@, Call("OnRightCtrlPressed", ""))]
    IN  IF h1.pending # ""
        THEN LET sent == SendTextString(h1, h1.pending, accepted)
             IN  HideSuggestion([sent.h EXCEPT !.pending = "", !.has = FALSE])
        ELSE h1

OnRightCtrlPressedKeepsSuggestion(h, accepted) ==
    LET h1 == [h EXCEPT !.calls = Append(@, Call("OnRightCtrlPressed", ""))]
    IN  IF h1.has /\ h1.pending # ""
        THEN HideSuggestion(SendTextString(h1, h1.pending, accepted).h)
        ELSE h1

\* special_keys.cpp:175-203
OnRightCtrlPressed(h, accepted) ==
    LET h1 == [h EXCEPT !.calls = Append(@, Call("OnRightCtrlPressed", ""))]
    IN  IF h1.has /\ h1.pending # ""
        THEN LET sent == SendTextString(h1, h1.pending, accepted)
             IN  HideSuggestion([sent.h EXCEPT !.pending = "", !.has = FALSE])
        ELSE h1

OnShiftPressed(h) == [h EXCEPT !.calls = Append(@, Call("OnShiftPressed", ""))]

OnAltPressed(h) == [h EXCEPT !.calls = Append(@, Call("OnAltPressed", ""))]

OnSpecialKeyPressed(h, vKey) ==
    CASE vKey = VK_SHIFT -> OnShiftPressed(h)
      [] vKey = VK_MENU  -> OnAltPressed(h)
      [] OTHER           -> [h EXCEPT !.calls = Append(@, Call("SpecialKeyHook", ""))]


\* special_keys.cpp:13-26
Initialize(h) ==
    LET keys == <<VK_CONTROL, VK_SHIFT, VK_MENU>>
    IN  [h EXCEPT !.keys = keys,
                  !.states = [i \in 1 .. Len(keys) |->
                                 IF i <= Len(h.states) THEN h.states[i]
                                 ELSE SpecialKeyState]]

\* special_keys.cpp:99-107
AddSpecialKeyResetsTracked(h, vKey) ==
    IF GetSpecialKeyIndex(h.keys, vKey) >= 0
    THEN [h EXCEPT !.states[GetSpecialKeyIndex(h.keys, vKey) + 1] = SpecialKeyState]
    ELSE [h EXCEPT !.keys = Append(@, vKey),
                   !.states = Append(@, SpecialKeyState)]

AddSpecialKeyUnchecked(h, vKey) ==
    [h EXCEPT !.keys = Append(@, vKey), !.states = Append(@, SpecialKeyState)]

AddSpecialKey(h, vKey) ==
    IF GetSpecialKeyIndex(h.keys, vKey) >= 0
    THEN h
    ELSE [h EXCEPT !.keys = Append(@, vKey),
                   !.states = Append(@, SpecialKeyState)]

\* special_keys.cpp:58-63, the key-down branch
KeyDownKeepsFlag(keyState, timestamp, cursorPos) ==
    [keyState EXCEPT !.isPressed = TRUE, !.pressTimestamp = timestamp,
                     !.pressPosition = cursorPos]

KeyDown(keyState, timestamp, cursorPos) ==
    [keyState EXCEPT !.isPressed = TRUE, !.hadInterveningKeys = FALSE,
                     !.pressTimestamp = timestamp, !.pressPosition = cursorPos]

\* special_keys.cpp:66, the condition under which a release fires the gesture
ReleaseFiresInverted(keyState) == keyState.isPressed /\ keyState.hadInterveningKeys

ReleaseFiresUnpressed(keyState) == ~keyState.hadInterveningKeys

ReleaseFires(keyState) == keyState.isPressed /\ ~keyState.hadInterveningKeys

\* special_keys.cpp:83, the condition under which a release is reported as
\* part of a combination
ReleaseSuppressed(keyState) == keyState.isPressed /\ keyState.hadInterveningKeys

\* special_keys.cpp:69-82, routing of a fired gesture
FireGestureSwapped(h, vKey, flags, gen, accepted) ==
    IF vKey = VK_CONTROL
    THEN IF HasFlag(flags, RI_KEY_E0)
         THEN OnLeftCtrlPressed(h, gen)
         ELSE OnRightCtrlPressed(h, accepted)
    ELSE OnSpecialKeyPressed(h, vKey)

FireGesture(h, vKey, flags, gen, accepted) ==
    IF vKey = VK_CONTROL
    THEN LET isRightCtrl == HasFlag(flags, RI_KEY_E0)
         IN  IF isRightCtrl
             THEN OnRightCtrlPressed(h, accepted)
             ELSE OnLeftCtrlPressed(h, gen)
    ELSE OnSpecialKeyPressed(h, vKey)

\* special_keys.cpp:92-93, the reset that ends every release
ReleaseResetKeepsFlag(keyState) == [keyState EXCEPT !.isPressed = FALSE]

ReleaseReset(keyState) ==
    [keyState EXCEPT !.isPressed = FALSE, !.hadInterveningKeys = FALSE]

\* special_keys.cpp:50-97. The handlers run before the key's state is reset
\* and do not touch the tracking states.
ProcessSpecialKeyEvent(h, vKey, flags, isKeyUp, timestamp, cursorPos, gen, accepted) ==
    LET specialKeyIndex == GetSpecialKeyIndex(h.keys, vKey)
        i == specialKeyIndex + 1
    IN  IF specialKeyIndex < 0
        THEN [handled |-> FALSE, h |-> h]
        ELSE LET keyState == h.states[i]
             IN  IF ~isKeyUp
                 THEN [handled |-> TRUE,
                       h |-> [h EXCEPT !.states[i] =
                                     KeyDown(keyState, timestamp, cursorPos)]]
                 ELSE LET h1 == IF ReleaseFires(keyState)
                                THEN FireGesture(h, vKey, flags, gen, accepted)
                                ELSE IF ReleaseSuppressed(keyState)
                                     THEN [h EXCEPT !.calls =
                                              Append(@, Call("LogCombination", ""))]
                                     ELSE h
                      IN  [handled |-> TRUE,
                           h |-> [h1 EXCEPT !.states[i] = ReleaseReset(h1.states[i])]]

\* special_keys.cpp:113-122
NotifyFirstHeldOnly(h, vKey) ==
    IF \E i \in 1 .. Len(h.keys) : h.states[i].isPressed
    THEN LET first == CHOOSE i \in 1 .. Len(h.keys) :
                         /\ h.states[i].isPressed
                         /\ \A j \in 1 .. (i - 1) : ~h.states[j].isPressed
         IN  [h EXCEPT !.states[first].hadInterveningKeys = TRUE]
    ELSE h

NotifyRegularKeyPressed(h, vKey) ==
    [h EXCEPT !.states = [i \in 1 .. Len(h.keys) |->
                             IF h.states[i].isPressed
                             THEN [h.states[i] EXCEPT !.hadInterveningKeys = TRUE]
                             ELSE h.states[i]]]

(* main.cpp *)

\* main.cpp:231
ShouldNotifyOnKeyUp(hookTriggered, isKeyUp) == ~hookTriggered /\ isKeyUp

ShouldNotify(hookTriggered, isKeyUp) == ~hookTriggered /\ ~isKeyUp

\* main.cpp:197-247, the keyboard branch of ProcessRawInput
ProcessKeyboardEscapeAnyEdge(h, vKey, flags, timestamp, cursorPos, gen, accepted) ==
    LET isKeyUp == HasFlag(flags, RI_KEY_BREAK)
    IN  IF vKey = VK_ESCAPE
        THEN [running |-> FALSE,
              h |-> [h EXCEPT !.calls = Append(@, Call("PostMessage", "WM_QUIT_APP"))]]
        ELSE LET isLeftCtrl == vKey = VK_CONTROL /\ ~HasFlag(flags, RI_KEY_E0)
                 h1 == IF ~isKeyUp /\ ~isLeftCtrl THEN HideSuggestion(h) ELSE h
                 r  == ProcessSpecialKeyEvent(h1, vKey, flags, isKeyUp, timestamp,
                                             cursorPos, gen, accepted)
                 h2 == IF ShouldNotify(r.handled, isKeyUp)
                       THEN NotifyRegularKeyPressed(r.h, vKey)
                       ELSE r.h
             IN  [running |-> TRUE, h |-> h2]

ProcessKeyboard(h, vKey, flags, timestamp, cursorPos, gen, accepted) ==
    LET isKeyUp == HasFlag(flags, RI_KEY_BREAK)
    IN  IF vKey = VK_ESCAPE /\ ~isKeyUp
        THEN [running |-> FALSE,
              h |-> [h EXCEPT !.calls = Append(@, Call("PostMessage", "WM_QUIT_APP"))]]
        ELSE LET isLeftCtrl == vKey = VK_CONTROL /\ ~HasFlag(flags, RI_KEY_E0)
                 h1 == IF ~isKeyUp /\ ~isLeftCtrl THEN HideSuggestion(h) ELSE h
                 r  == ProcessSpecialKeyEvent(h1, vKey, flags, isKeyUp, timestamp,
                                             cursorPos, gen, accepted)
                 h2 == IF ShouldNotify(r.handled, isKeyUp)
                       THEN NotifyRegularKeyPressed(r.h, vKey)
                       ELSE r.h
             IN  [running |-> TRUE, h |-> h2]

-----------------------------------------------------------------------------
(* What is observed of each event, and the history of the key events *)

GestureHandlers == {"OnLeftCtrlPressed", "OnRightCtrlPressed", "OnShiftPressed",
                    "OnAltPressed", "SpecialKeyHook"}

\* rightCtrl: the event is of VK_CONTROL with RI_KEY_E0 set. wasPressed,
\* hadAtRelease and the g fields are the key's tracking state and history just
\* before a key-up of a monitored key; gen and prevHas are the generator's
\* outcome and s_hasPendingSuggestion just before, when the generator ran.
\* accepted is the platform's answer when the injector was called; prevVisible
\* is whether the overlay was visible just before a key-down. timestamp and
\* cursorPos are the event's; buttonFlags is usButtonFlags of a mouse message;
\* pressTimestamp and pressPosition are what the key's tracking state held,
\* gTimestamp, gPosition and gExtended what the history held, just before a
\* key-up of a monitored key.
NoEvent ==
    [kind |-> "none", vKey |-> 0, isKeyUp |-> FALSE, rightCtrl |-> FALSE,
     special |-> FALSE, wasPressed |-> FALSE, hadAtRelease |-> FALSE,
     gDown |-> FALSE, gAny |-> FALSE, gReg |-> FALSE, gAfterSupp |-> FALSE,
     gen |-> NoGen, prevHas |-> FALSE, accepted |-> TRUE, prevVisible |-> FALSE,
     timestamp |-> 0, cursorPos |-> [x |-> 0, y |-> 0], buttonFlags |-> 0,
     pressTimestamp |-> 0, pressPosition |-> [x |-> 0, y |-> 0],
     gTimestamp |-> 0, gPosition |-> [x |-> 0, y |-> 0], gExtended |-> FALSE,
     sends |-> 0]

\* Per virtual key, from the delivered events alone: down = a key-down of the key
\* was delivered and no key-up of it since; any = a key-down of another key was
\* delivered since that key-down; reg = a key-down of a key that is not monitored
\* was delivered since; afterSupp = the key-down followed a suppressed release of
\* the key; lastSupp = the key's last release was suppressed; timestamp and
\* cursorPos = those of the key-down delivered while the key was not down;
\* extended = whether that key-down had RI_KEY_E0 set.
NoHistory ==
    [down |-> FALSE, any |-> FALSE, reg |-> FALSE, afterSupp |-> FALSE,
     lastSupp |-> FALSE, timestamp |-> 0, cursorPos |-> [x |-> 0, y |-> 0],
     extended |-> FALSE]

GhostAfter(g, keys, vKey, isKeyUp, suppressed, timestamp, cursorPos, extended) ==
    [k \in Keys |->
        IF ~IsSpecialKey(keys, k) THEN g[k]
        ELSE IF k = vKey
        THEN IF isKeyUp
             THEN [NoHistory EXCEPT !.lastSupp = suppressed]
             ELSE [down |-> TRUE, any |-> FALSE, reg |-> FALSE,
                   afterSupp |-> g[k].lastSupp, lastSupp |-> g[k].lastSupp,
                   timestamp |-> IF g[k].down THEN g[k].timestamp ELSE timestamp,
                   cursorPos |-> IF g[k].down THEN g[k].cursorPos ELSE cursorPos,
                   extended |-> IF g[k].down THEN g[k].extended ELSE extended]
        ELSE IF ~isKeyUp /\ g[k].down
        THEN [g[k] EXCEPT !.any = TRUE,
                          !.reg = @ \/ ~IsSpecialKey(keys, vKey)]
        ELSE g[k]]

Invoked(cs, op) == \E i \in 1 .. Len(cs) : cs[i].op = op

\* Number of gesture handlers invoked
FiredCount(cs) == Cardinality({i \in 1 .. Len(cs) : cs[i].op \in GestureHandlers})

\* main.cpp:191-195: the time and the cursor position of an event, where
\* no property depends on them
CursorPositions == {[x |-> 0, y |-> 0]}

Timestamps == {0}

\* No call of InputInjector made yet
NoCall == [op |-> "none", text |-> <<>>, ready |-> FALSE, result |-> FALSE]

\* No call of EventLogger made yet. ready, prevShift, prevCaps and prevLen are
\* s_initialized, s_shiftPressed, s_capsLockOn and the number of lines of the
\* log just before the call; writable is whether the log file opened;
\* afterFailure is whether the call before this one was of an event whose
\* write failed; held is the set of Shift keys that are physically down, where
\* the events are those of physical keys; received is the number of keyboard
\* events and button transitions received since the startup clear, where they
\* are counted, and failed is whether a write of one of them failed.
NoLogCall ==
    [op |-> "none", vKey |-> 0, up |-> FALSE, ready |-> FALSE,
     prevShift |-> FALSE, prevCaps |-> FALSE, prevLen |-> 0,
     timestamp |-> 0, button |-> "", pos |-> [x |-> 0, y |-> 0],
     writable |-> FALSE, afterFailure |-> FALSE, held |-> {},
     received |-> 0, failed |-> FALSE]

LogCallOf(op, vKey, up, lg) ==
    [NoLogCall EXCEPT !.op = op, !.vKey = vKey, !.up = up,
                      !.ready = lg.initialized, !.prevShift = lg.shift,
                      !.prevCaps = lg.caps, !.prevLen = Len(lg.file),
                      !.afterFailure =
                          /\ logCall.op \in {"LogKeyboardEvent", "LogMouseButtonEvent"}
                          /\ logCall.ready
                          /\ ~logCall.writable]

\* No call of VKeyToChar made yet
NoChar == [vKey |-> 0, char |-> <<>>]

-----------------------------------------------------------------------------
(* The program *)

Init ==
    /\ pc = "start"
    /\ g_running = TRUE
    /\ s_specialKeys = <<>>
    /\ s_specialKeyStates = <<>>
    /\ s_pendingSuggestion = ""
    /\ s_hasPendingSuggestion = FALSE
    /\ overlay = [initialized |-> FALSE, window |-> FALSE, current |-> "",
                  visible |-> FALSE]
    /\ injectorInitialized = FALSE
    /\ calls = <<>>
    /\ ev = NoEvent
    /\ ghost = [k \in Keys |-> NoHistory]
    /\ sendCall = NoCall
    /\ issued = <<>>
    /\ loggerInitialized = FALSE
    /\ s_shiftPressed = FALSE
    /\ s_capsLockOn = FALSE
    /\ logFile = <<>>
    /\ logCall = NoLogCall
    /\ charOut = NoChar

\* main.cpp:423-433: the Initialize calls; creating the overlay window may fail
MainInitializeEffects ==
    /\ pc = "start"
    /\ \E created \in BOOLEAN :
        LET h == Initialize(Handler)
        IN  /\ s_specialKeys' = h.keys
            /\ s_specialKeyStates' = h.states
            /\ overlay' = [overlay EXCEPT !.initialized = created, !.window = created]
    /\ injectorInitialized' = TRUE
    /\ pc' = "config"
    /\ UNCHANGED <<g_running, s_pendingSuggestion, s_hasPendingSuggestion, calls,
                   ev, ghost>>

\* The Initialize calls, the event log left aside
MainInitialize ==
    /\ MainInitializeEffects
    /\ UNCHANGED <<sendVars, logVars>>

\* The configuration surface: further keys registered before input is processed
ConfigureSpecialKey(vKey) ==
    /\ pc = "config"
    /\ LET h == AddSpecialKey(Handler, vKey)
       IN  /\ s_specialKeys' = h.keys
           /\ s_specialKeyStates' = h.states
    /\ UNCHANGED <<pc, g_running, s_pendingSuggestion, s_hasPendingSuggestion,
                   overlay, injectorInitialized, calls, ev, ghost>>
    /\ UNCHANGED <<sendVars, logVars>>

\* main.cpp:477-479: the message loop is entered
EnterLoop ==
    /\ pc = "config"
    /\ pc' = "loop"
    /\ UNCHANGED <<g_running, s_specialKeys, s_specialKeyStates, s_pendingSuggestion,
                   s_hasPendingSuggestion, overlay, injectorInitialized, calls, ev,
                   ghost>>
    /\ UNCHANGED <<sendVars, logVars>>

\* main.cpp:177-247: what one WM_INPUT keyboard message does apart from the
\* event log. The generator's outcome and the platform's answer are drawn only
\* when the event consumes them. track: whether the history remembers
\* suppressed releases; origin: whether it remembers which of the two keys of
\* a virtual key began a hold, and counts in ev.sends the calls of
\* SendTextString made since the last generation that returned a suggestion.
KeyboardEffects(vKey, flags, track, origin, timestamp, cursorPos) ==
    /\ pc = "loop"
    /\ g_running
    /\ \E probe \in {ProcessKeyboard(Handler, vKey, flags, timestamp, cursorPos,
                                     NoGen, TRUE).h.calls} :
       \E gen \in IF Invoked(probe, "system") THEN GenOutcomes ELSE {NoGen},
          accepted \in IF Invoked(probe, "SendTextString") THEN BOOLEAN ELSE {TRUE} :
       \E r \in {ProcessKeyboard(Handler, vKey, flags, timestamp, cursorPos, gen,
                                 accepted)} :
        LET isKeyUp == HasFlag(flags, RI_KEY_BREAK)
            special == IsSpecialKey(s_specialKeys, vKey)
            release == special /\ isKeyUp
            keyState == IF special
                        THEN s_specialKeyStates[GetSpecialKeyIndex(s_specialKeys, vKey) + 1]
                        ELSE SpecialKeyState
            generated == Invoked(r.h.calls, "system")
        IN  /\ g_running' = r.running
            /\ s_specialKeys' = r.h.keys
            /\ s_specialKeyStates' = r.h.states
            /\ s_pendingSuggestion' = r.h.pending
            /\ s_hasPendingSuggestion' = r.h.has
            /\ overlay' = r.h.overlay
            /\ calls' = r.h.calls
            /\ ev' = [NoEvent EXCEPT
                      !.kind = "keyboard", !.vKey = vKey, !.isKeyUp = isKeyUp,
                      !.rightCtrl = vKey = VK_CONTROL /\ HasFlag(flags, RI_KEY_E0),
                      !.special = special,
                      !.wasPressed = release /\ keyState.isPressed,
                      !.hadAtRelease = release /\ keyState.hadInterveningKeys,
                      !.gDown = release /\ ghost[vKey].down,
                      !.gAny = release /\ ghost[vKey].any,
                      !.gReg = release /\ ghost[vKey].reg,
                      !.gAfterSupp = release /\ ghost[vKey].afterSupp,
                      !.gen = IF generated THEN gen ELSE NoGen,
                      !.prevHas = generated /\ s_hasPendingSuggestion,
                      !.accepted = Invoked(r.h.calls, "SendTextString") => accepted,
                      !.prevVisible = ~isKeyUp /\ overlay.visible,
                      !.timestamp = timestamp, !.cursorPos = cursorPos,
                      !.pressTimestamp = IF release THEN keyState.pressTimestamp ELSE 0,
                      !.pressPosition = IF release THEN keyState.pressPosition
                                        ELSE NoEvent.pressPosition,
                      !.gTimestamp = IF release THEN ghost[vKey].timestamp ELSE 0,
                      !.gPosition = IF release THEN ghost[vKey].cursorPos
                                    ELSE NoEvent.gPosition,
                      !.gExtended = release /\ ghost[vKey].extended,
                      !.sends = IF ~origin THEN 0
                                ELSE IF generated /\ r.h.has THEN 0
                                ELSE IF Invoked(r.h.calls, "SendTextString")
                                     THEN ev.sends + 1
                                ELSE ev.sends]
            /\ ghost' = GhostAfter(ghost, s_specialKeys, vKey, isKeyUp,
                                   track /\ Invoked(r.h.calls, "LogCombination"),
                                   timestamp, cursorPos,
                                   origin /\ HasFlag(flags, RI_KEY_E0))
    /\ UNCHANGED <<pc, injectorInitialized>>

\* One WM_INPUT keyboard message, the event log left aside
KeyboardMessage(vKey, flags, track) ==
    /\ \E timestamp \in Timestamps, cursorPos \in CursorPositions :
          KeyboardEffects(vKey, flags, track, FALSE, timestamp, cursorPos)
    /\ UNCHANGED <<sendVars, logVars>>

KeyboardInput(vKey, flags) == KeyboardMessage(vKey, flags, FALSE)

KeyboardInputTracked(vKey, flags) == KeyboardMessage(vKey, flags, TRUE)

MouseInputNotifies(button) ==
    /\ pc = "loop"
    /\ g_running
    /\ calls' = <<>>
    /\ ev' = [NoEvent EXCEPT !.kind = "mouse"]
    /\ s_specialKeyStates' = NotifyRegularKeyPressed(Handler, 0).states
    /\ UNCHANGED <<pc, g_running, s_specialKeys,
                   s_pendingSuggestion, s_hasPendingSuggestion, overlay,
                   injectorInitialized, ghost>>
    /\ UNCHANGED <<sendVars, logVars>>

\* main.cpp:248-314: one WM_INPUT mouse message
MouseInput(button) ==
    /\ pc = "loop"
    /\ g_running
    /\ calls' = <<>>
    /\ ev' = [NoEvent EXCEPT !.kind = "mouse"]
    /\ UNCHANGED <<pc, g_running, s_specialKeys, s_specialKeyStates,
                   s_pendingSuggestion, s_hasPendingSuggestion, overlay,
                   injectorInitialized, ghost>>
    /\ UNCHANGED <<sendVars, logVars>>

\* main.cpp:479-485: the loop ends once g_running is false; the overlay is
\* destroyed (suggestion_overlay.cpp:48-54)
ExitLoop ==
    /\ pc = "loop"
    /\ ~g_running
    /\ pc' = "exit"
    /\ overlay' = [overlay EXCEPT !.initialized = FALSE, !.window = FALSE,
                                  !.visible = FALSE]
    /\ calls' = <<>>
    /\ ev' = NoEvent
    /\ UNCHANGED <<g_running, s_specialKeys, s_specialKeyStates, s_pendingSuggestion,
                   s_hasPendingSuggestion, injectorInitialized, ghost>>
    /\ UNCHANGED <<sendVars, logVars>>

Next ==
    \/ MainInitialize
    \/ \E vKey \in AddableKeys : ConfigureSpecialKey(vKey)
    \/ EnterLoop
    \/ \E vKey \in Keys, flags \in Flags : KeyboardInput(vKey, flags)
    \/ \E button \in MouseButtons : MouseInput(button)
    \/ ExitLoop

Spec == Init /\ [][Next]_vars

\* The program as main() configures it (Ctrl, Shift, Alt), with the history
\* of suppressed releases kept.
NextCycle ==
    \/ MainInitialize
    \/ EnterLoop
    \/ \E vKey \in Keys, flags \in Flags : KeyboardInputTracked(vKey, flags)
    \/ \E button \in MouseButtons : MouseInput(button)
    \/ ExitLoop

SpecCycle == Init /\ [][NextCycle]_vars

\* The handler reconfigured while it runs: AddSpecialKey is public and may be
\* called at any time once the handler is initialized, also while keys are
\* held. special: whether the key was monitored just before the call.
AddSpecialKeyCall(vKey) ==
    /\ pc \in {"config", "loop"}
    /\ g_running
    /\ LET h == AddSpecialKey(Handler, vKey)
       IN  /\ s_specialKeys' = h.keys
           /\ s_specialKeyStates' = h.states
    /\ ev' = [NoEvent EXCEPT !.kind = "add", !.vKey = vKey,
                             !.special = IsSpecialKey(s_specialKeys, vKey)]
    /\ calls' = <<>>
    /\ UNCHANGED <<pc, g_running, s_pendingSuggestion, s_hasPendingSuggestion,
                   overlay, injectorInitialized, ghost>>
    /\ UNCHANGED <<sendVars, logVars>>

\* special_keys.cpp:99-107: AddSpecialKey called before Initialize
EarlyAddSpecialKey(vKey) ==
    /\ pc = "start"
    /\ LET h == AddSpecialKey(Handler, vKey)
       IN  /\ s_specialKeys' = h.keys
           /\ s_specialKeyStates' = h.states
    /\ ev' = [NoEvent EXCEPT !.kind = "early", !.vKey = vKey,
                             !.special = IsSpecialKey(s_specialKeys, vKey)]
    /\ calls' = <<>>
    /\ UNCHANGED <<pc, g_running, s_pendingSuggestion, s_hasPendingSuggestion,
                   overlay, injectorInitialized, ghost>>
    /\ UNCHANGED <<sendVars, logVars>>

\* special_keys.cpp:13-26: SpecialKeyHandler::Initialize called again, after
\* the call of main()
InitializeCall ==
    /\ pc \in {"config", "loop"}
    /\ g_running
    /\ LET h == Initialize(Handler)
       IN  /\ s_specialKeys' = h.keys
           /\ s_specialKeyStates' = h.states
    /\ ev' = [NoEvent EXCEPT !.kind = "init"]
    /\ calls' = <<>>
    /\ UNCHANGED <<pc, g_running, s_pendingSuggestion, s_hasPendingSuggestion,
                   overlay, injectorInitialized, ghost>>
    /\ UNCHANGED <<sendVars, logVars>>

\* VKey and Flags of the keyboard messages: right Ctrl, Shift and the left
\* Windows key going down and up, A going down
ConfigKeyEvents ==
    {<<VK_CONTROL, RI_KEY_E0>>, <<VK_CONTROL, RI_KEY_E0 + RI_KEY_BREAK>>,
     <<VK_SHIFT, 0>>, <<VK_SHIFT, RI_KEY_BREAK>>,
     <<VK_LWIN, 0>>, <<VK_LWIN, RI_KEY_BREAK>>, <<VK_A, 0>>}

NextConfig ==
    \/ MainInitialize
    \/ EnterLoop
    \/ \E vKey \in AddableKeys : AddSpecialKeyCall(vKey)
    \/ \E vKey \in AddableKeys : EarlyAddSpecialKey(vKey)
    \/ InitializeCall
    \/ \E e \in ConfigKeyEvents : KeyboardInput(e[1], e[2])

SpecConfig == Init /\ [][NextConfig]_vars

\* The program with the time and the cursor position of its events
\* (main.cpp:191-195): the clock goes on from one message to the next, the
\* cursor is at one of two places.
MaxTime == 3

TimedPositions == {[x |-> 0, y |-> 0], [x |-> 10, y |-> 20]}

\* VKey and Flags of the keyboard messages: right Ctrl and Shift going down
\* and up, A and Escape going down
TimedKeyEvents ==
    {<<VK_CONTROL, RI_KEY_E0>>, <<VK_CONTROL, RI_KEY_E0 + RI_KEY_BREAK>>,
     <<VK_SHIFT, 0>>, <<VK_SHIFT, RI_KEY_BREAK>>, <<VK_A, 0>>, <<VK_ESCAPE, 0>>}

TimedKeyboardInput(vKey, flags) ==
    /\ ev.timestamp < MaxTime
    /\ \E cursorPos \in TimedPositions :
          KeyboardEffects(vKey, flags, FALSE, FALSE, ev.timestamp + 1, cursorPos)
    /\ UNCHANGED <<sendVars, logVars>>

NextTimed ==
    \/ MainInitialize
    \/ EnterLoop
    \/ \E e \in TimedKeyEvents : TimedKeyboardInput(e[1], e[2])
    \/ ExitLoop

SpecTimed == Init /\ [][NextTimed]_vars

\* The program with the two Ctrl keys told apart in the history: the events
\* of left and right Ctrl in any order, and A going down
CtrlKeyEvents ==
    {<<VK_CONTROL, 0>>, <<VK_CONTROL, RI_KEY_BREAK>>,
     <<VK_CONTROL, RI_KEY_E0>>, <<VK_CONTROL, RI_KEY_E0 + RI_KEY_BREAK>>,
     <<VK_A, 0>>}

CtrlKeyboardInput(vKey, flags) ==
    /\ \E timestamp \in Timestamps, cursorPos \in CursorPositions :
          KeyboardEffects(vKey, flags, FALSE, TRUE, timestamp, cursorPos)
    /\ UNCHANGED <<sendVars, logVars>>

NextCtrl ==
    \/ MainInitialize
    \/ EnterLoop
    \/ \E e \in CtrlKeyEvents : CtrlKeyboardInput(e[1], e[2])

SpecCtrl == Init /\ [][NextCtrl]_vars

-----------------------------------------------------------------------------
(* input_injection.cpp: the synthetic key events of InputInjector *)

VK_SPACE == 32

CHAR_UPPER_A == 65
CHAR_UPPER_Z == 90
CHAR_LOWER_A == 97
CHAR_LOWER_Z == 122
CHAR_0 == 48
CHAR_9 == 57
CHAR_SPACE == 32
CHAR_EXCLAMATION == 33

\* The characters of the texts: 'A', 'b', '1', ' ', '!' and 0xE9, which the
\* keyboard layout cannot type.
Chars == {CHAR_UPPER_A, CHAR_LOWER_A + 1, CHAR_0 + 1, CHAR_SPACE,
          CHAR_EXCLAMATION, 233}

\* "Ab1 "
ExampleText == <<CHAR_UPPER_A, CHAR_LOWER_A + 1, CHAR_0 + 1, CHAR_SPACE>>

MaxTextLen == 2

Texts ==
    UNION {[1 .. n -> Chars] : n \in 0 .. MaxTextLen} \cup {ExampleText}

\* Keys SendVirtualKey is called with on its own
SendableKeys == {VK_SHIFT, VK_A}

LOBYTE(w) == w % 256

HIBYTE(w) == (w % 65536) \div 256

\* VkKeyScanA of the platform, for the US keyboard layout: the virtual key in
\* the low byte, bit 0 of the high byte set when Shift is needed, -1 when the
\* layout cannot type the character.
VkKeyScanA(c) ==
    IF c >= CHAR_UPPER_A /\ c <= CHAR_UPPER_Z THEN c + 256
    ELSE IF c >= CHAR_LOWER_A /\ c <= CHAR_LOWER_Z THEN CHAR_UPPER_A + (c - CHAR_LOWER_A)
    ELSE IF c >= CHAR_0 /\ c <= CHAR_9 THEN c
    ELSE IF c = CHAR_SPACE THEN VK_SPACE
    ELSE IF c = CHAR_EXCLAMATION THEN (CHAR_0 + 1) + 256
    ELSE -1

\* input_injection.cpp:103-131
CharToVirtualKey(c) ==
    IF c >= CHAR_UPPER_A /\ c <= CHAR_UPPER_Z THEN CHAR_UPPER_A + (c - CHAR_UPPER_A)
    ELSE IF c >= CHAR_LOWER_A /\ c <= CHAR_LOWER_Z THEN CHAR_UPPER_A + (c - CHAR_LOWER_A)
    ELSE IF c >= CHAR_0 /\ c <= CHAR_9 THEN CHAR_0 + (c - CHAR_0)
    ELSE IF c = CHAR_SPACE THEN VK_SPACE
    ELSE LET vkScan == VkKeyScanA(c)
         IN  IF vkScan # -1 THEN LOBYTE(vkScan) ELSE 0

\* A synthetic key event handed to SendInput: ch is the position in the text of
\* the character it is issued for (0 outside SendTextString), ok is whether
\* the platform accepted it.
SyntheticEvent(vk, up, ch, ok) == [vk |-> vk, up |-> up, ch |-> ch, ok |-> ok]

\* input_injection.cpp:138-148; out is what was issued so far
SendInputHelper(out, input) == [issued |-> Append(out, input), ret |-> input.ok]

\* input_injection.cpp:15-28
SendVirtualKeyUnchecked(out, initialized, vkCode, isKeyUp, ch, ok) ==
    SendInputHelper(out, SyntheticEvent(vkCode, isKeyUp, ch, ok))

SendVirtualKey(out, initialized, vkCode, isKeyUp, ch, ok) ==
    IF ~initialized
    THEN [issued |-> out, ret |-> FALSE]
    ELSE SendInputHelper(out, SyntheticEvent(vkCode, isKeyUp, ch, ok))

\* input_injection.cpp:30-39
SendKeyPressShortCircuit(out, initialized, vkCode, ch, okDown, okUp) ==
    LET down == SendVirtualKey(out, initialized, vkCode, FALSE, ch, okDown)
    IN  IF down.ret
        THEN SendVirtualKey(down.issued, initialized, vkCode, TRUE, ch, okUp)
        ELSE down

SendKeyPress(out, initialized, vkCode, ch, okDown, okUp) ==
    LET down == SendVirtualKey(out, initialized, vkCode, FALSE, ch, okDown)
        up   == SendVirtualKey(down.issued, initialized, vkCode, TRUE, ch, okUp)
    IN  [issued |-> up.issued, ret |-> down.ret /\ up.ret]

\* input_injection.cpp:50-77, one round of the loop for the character c at
\* position ch; answers[1..4] is what the platform answers to the shift-down,
\* the key-down, the key-up and the shift-up
SendTextCharFailsUnmapped(out, initialized, success, c, ch, answers) ==
    LET vkCode == CharToVirtualKey(c)
    IN  IF vkCode # 0
        THEN LET shift == HIBYTE(VkKeyScanA(c)) % 2 = 1
                 s1 == IF shift
                       THEN SendVirtualKey(out, initialized, VK_SHIFT, FALSE, ch,
                                           answers[1]).issued
                       ELSE out
                 kp == SendKeyPress(s1, initialized, vkCode, ch, answers[2], answers[3])
                 s2 == IF shift
                       THEN SendVirtualKey(kp.issued, initialized, VK_SHIFT, TRUE, ch,
                                           answers[4]).issued
                       ELSE kp.issued
             IN  [issued |-> s2, success |-> success /\ kp.ret]
        ELSE [issued |-> out, success |-> FALSE]

SendTextCharLeavesShiftOnFailure(out, initialized, success, c, ch, answers) ==
    LET vkCode == CharToVirtualKey(c)
    IN  IF vkCode # 0
        THEN LET shift == HIBYTE(VkKeyScanA(c)) % 2 = 1
                 s1 == IF shift
                       THEN SendVirtualKey(out, initialized, VK_SHIFT, FALSE, ch,
                                           answers[1]).issued
                       ELSE out
                 kp == SendKeyPress(s1, initialized, vkCode, ch, answers[2], answers[3])
                 s2 == IF shift /\ kp.ret
                       THEN SendVirtualKey(kp.issued, initialized, VK_SHIFT, TRUE, ch,
                                           answers[4]).issued
                       ELSE kp.issued
             IN  [issued |-> s2, success |-> success /\ kp.ret]
        ELSE [issued |-> out, success |-> success]

SendTextChar(out, initialized, success, c, ch, answers) ==
    LET vkCode == CharToVirtualKey(c)
    IN  IF vkCode # 0
        THEN LET modifiers == HIBYTE(VkKeyScanA(c))
                 shift == modifiers % 2 = 1
                 s1 == IF shift
                       THEN SendVirtualKey(out, initialized, VK_SHIFT, FALSE, ch,
                                           answers[1]).issued
                       ELSE out
                 kp == SendKeyPress(s1, initialized, vkCode, ch, answers[2], answers[3])
                 s2 == IF shift
                       THEN SendVirtualKey(kp.issued, initialized, VK_SHIFT, TRUE, ch,
                                           answers[4]).issued
                       ELSE kp.issued
             IN  [issued |-> s2, success |-> success /\ kp.ret]
        ELSE [issued |-> out, success |-> success]

\* input_injection.cpp:49-79, the loop from position ch on
RECURSIVE SendTextLoop(_, _, _, _, _, _)
SendTextLoop(out, initialized, success, text, ch, answers) ==
    IF ch > Len(text)
    THEN [issued |-> out, ret |-> success]
    ELSE LET r == SendTextChar(out, initialized, success, text[ch], ch, answers[ch])
         IN  SendTextLoop(r.issued, initialized, r.success, text, ch + 1, answers)

\* input_injection.cpp:41-80, InputInjector::SendTextString with the events
\* it issues
InjectorSendTextString(initialized, text, answers) ==
    IF ~initialized
    THEN [issued |-> <<>>, ret |-> FALSE]
    ELSE SendTextLoop(<<>>, initialized, TRUE, text, 1, answers)

\* The answers the platform can give to the events issued for character c;
\* an answer to an event that is not issued is fixed to TRUE.
AnswersFor(initialized, c) ==
    { a \in [1 .. 4 -> BOOLEAN] :
        LET n == Len(SendTextChar(<<>>, initialized, TRUE, c, 1,
                                  [k \in 1 .. 4 |-> TRUE]).issued)
        IN  /\ n < 4 => (a[1] /\ a[4])
            /\ n < 2 => (a[2] /\ a[3]) }

\* input_injection.cpp:10-13
InjectorInitialize ==
    /\ sendCall = NoCall
    /\ injectorInitialized' = TRUE
    /\ UNCHANGED <<mainVars, sendVars, logVars>>

\* A call of SendTextString; the injector is called again once the caller
\* has taken the result
SendTextStringCall(text) ==
    /\ sendCall = NoCall
    /\ \E answers \in [1 .. Len(text) -> [1 .. 4 -> BOOLEAN]] :
        /\ \A k \in 1 .. Len(text) :
             answers[k] \in AnswersFor(injectorInitialized, text[k])
        /\ \E r \in {InjectorSendTextString(injectorInitialized, text, answers)} :
            /\ sendCall' = [op |-> "SendTextString", text |-> text,
                            ready |-> injectorInitialized, result |-> r.ret]
            /\ issued' = r.issued
    /\ UNCHANGED <<mainVars, injectorInitialized, logVars>>

\* A call of SendVirtualKey
SendVirtualKeyCall(vkCode, isKeyUp) ==
    /\ sendCall = NoCall
    /\ \E ok \in IF injectorInitialized THEN BOOLEAN ELSE {TRUE} :
       \E r \in {SendVirtualKey(<<>>, injectorInitialized, vkCode, isKeyUp, 0, ok)} :
        /\ sendCall' = [op |-> "SendVirtualKey", text |-> <<>>,
                        ready |-> injectorInitialized, result |-> r.ret]
        /\ issued' = r.issued
    /\ UNCHANGED <<mainVars, injectorInitialized, logVars>>

\* The caller takes the result of the call
SendReturn ==
    /\ sendCall # NoCall
    /\ sendCall' = NoCall
    /\ issued' = <<>>
    /\ UNCHANGED <<mainVars, injectorInitialized, logVars>>

NextInject ==
    \/ InjectorInitialize
    \/ \E text \in Texts : SendTextStringCall(text)
    \/ \E vkCode \in SendableKeys, isKeyUp \in BOOLEAN : SendVirtualKeyCall(vkCode, isKeyUp)
    \/ SendReturn

SpecInject == Init /\ [][NextInject]_vars

-----------------------------------------------------------------------------
(* event_logger.cpp *)

VK_CAPITAL == 20
VK_LSHIFT == 160
VK_RSHIFT == 161
VK_0 == 48
VK_9 == 57
VK_Z == 90
VK_OEM_1 == 186
VK_OEM_PLUS == 187
VK_OEM_COMMA == 188
VK_OEM_MINUS == 189
VK_OEM_PERIOD == 190
VK_OEM_2 == 191
VK_OEM_3 == 192
VK_OEM_4 == 219
VK_OEM_5 == 220
VK_OEM_6 == 221
VK_OEM_7 == 222

\* Every value of the 8-bit virtual-key range
AllVKeys == 0 .. 255

\* Keys the logger is called with on its own
LogKeys == {VK_SHIFT, VK_LSHIFT, VK_RSHIFT, VK_CAPITAL, VK_A}

LogButtons == {"left", "right", "middle"}


MaxLog == 1

\* The statics of EventLogger and the log file, as one record
Logger ==
    [initialized |-> loggerInitialized, shift |-> s_shiftPressed,
     caps |-> s_capsLockOn, file |-> logFile]

\* event_logger.cpp:225-238
UpdateModifierStatesTogglesOnUp(lg, vKey, isKeyUp) ==
    IF vKey \in {VK_SHIFT, VK_LSHIFT, VK_RSHIFT}
    THEN [lg EXCEPT !.shift = ~isKeyUp]
    ELSE IF vKey = VK_CAPITAL
    THEN [lg EXCEPT !.caps = ~@]
    ELSE lg

UpdateModifierStates(lg, vKey, isKeyUp) ==
    IF vKey \in {VK_SHIFT, VK_LSHIFT, VK_RSHIFT}
    THEN [lg EXCEPT !.shift = ~isKeyUp]
    ELSE IF vKey = VK_CAPITAL
    THEN IF ~isKeyUp THEN [lg EXCEPT !.caps = ~@] ELSE lg
    ELSE lg

\* event_logger.cpp:207-223
IsPrintableKey(vKey) ==
    \/ (vKey >= VK_A /\ vKey <= VK_Z)
    \/ (vKey >= VK_0 /\ vKey <= VK_9)
    \/ vKey \in {VK_SPACE, VK_OEM_1, VK_OEM_PLUS, VK_OEM_COMMA, VK_OEM_MINUS,
                 VK_OEM_PERIOD, VK_OEM_2, VK_OEM_3, VK_OEM_4, VK_OEM_5, VK_OEM_6,
                 VK_OEM_7}

\* ")!@#$%^&*(" as character codes
ShiftedNumbers == <<41, 33, 64, 35, 36, 37, 94, 38, 42, 40>>

\* event_logger.cpp:189-204, as character codes
PunctuationChar(vKey, shiftPressed) ==
    CASE vKey = VK_SPACE      -> <<CHAR_SPACE>>
      [] vKey = VK_OEM_1      -> IF shiftPressed THEN <<58>> ELSE <<59>>
      [] vKey = VK_OEM_PLUS   -> IF shiftPressed THEN <<43>> ELSE <<61>>
      [] vKey = VK_OEM_COMMA  -> IF shiftPressed THEN <<60>> ELSE <<44>>
      [] vKey = VK_OEM_MINUS  -> IF shiftPressed THEN <<95>> ELSE <<45>>
      [] vKey = VK_OEM_PERIOD -> IF shiftPressed THEN <<62>> ELSE <<46>>
      [] vKey = VK_OEM_2      -> IF shiftPressed THEN <<63>> ELSE <<47>>
      [] vKey = VK_OEM_3      -> IF shiftPressed THEN <<126>> ELSE <<96>>
      [] vKey = VK_OEM_4      -> IF shiftPressed THEN <<123>> ELSE <<91>>
      [] vKey = VK_OEM_5      -> IF shiftPressed THEN <<124>> ELSE <<92>>
      [] vKey = VK_OEM_6      -> IF shiftPressed THEN <<125>> ELSE <<93>>
      [] vKey = VK_OEM_7      -> IF shiftPressed THEN <<34>> ELSE <<39>>
      [] OTHER                -> <<>>

\* event_logger.cpp:160-205; the string returned, as character codes
VKeyToCharShiftOrCaps(vKey, shiftPressed, capsLockOn) ==
    IF ~IsPrintableKey(vKey) THEN <<>>
    ELSE IF vKey >= VK_A /\ vKey <= VK_Z
    THEN LET letter == CHAR_UPPER_A + (vKey - VK_A)
         IN  IF shiftPressed \/ capsLockOn
             THEN <<letter>>
             ELSE <<letter - CHAR_UPPER_A + CHAR_LOWER_A>>
    ELSE IF vKey >= VK_0 /\ vKey <= VK_9
    THEN IF shiftPressed
         THEN <<ShiftedNumbers[(vKey - VK_0) + 1]>>
         ELSE <<CHAR_0 + (vKey - VK_0)>>
    ELSE PunctuationChar(vKey, shiftPressed)

VKeyToCharDigitsFollowCaps(vKey, shiftPressed, capsLockOn) ==
    IF ~IsPrintableKey(vKey) THEN <<>>
    ELSE IF vKey >= VK_A /\ vKey <= VK_Z
    THEN LET letter == (CHAR_UPPER_A + (vKey - VK_A)) % 256
         IN  IF shiftPressed # capsLockOn
             THEN <<letter>>
             ELSE <<(letter - CHAR_UPPER_A + CHAR_LOWER_A) % 256>>
    ELSE IF vKey >= VK_0 /\ vKey <= VK_9
    THEN IF shiftPressed # capsLockOn
         THEN <<ShiftedNumbers[(vKey - VK_0) + 1]>>
         ELSE <<CHAR_0 + (vKey - VK_0)>>
    ELSE PunctuationChar(vKey, shiftPressed)

VKeyToChar(vKey, shiftPressed, capsLockOn) ==
    IF ~IsPrintableKey(vKey) THEN <<>>
    ELSE IF vKey >= VK_A /\ vKey <= VK_Z
    THEN LET letter == (CHAR_UPPER_A + (vKey - VK_A)) % 256
             shouldBeUppercase == shiftPressed # capsLockOn
         IN  IF ~shouldBeUppercase
             THEN <<(letter - CHAR_UPPER_A + CHAR_LOWER_A) % 256>>
             ELSE <<letter>>
    ELSE IF vKey >= VK_0 /\ vKey <= VK_9
    THEN IF shiftPressed
         THEN <<ShiftedNumbers[(vKey - VK_0) + 1]>>
         ELSE <<CHAR_0 + (vKey - VK_0)>>
    ELSE PunctuationChar(vKey, shiftPressed)

\* The pieces of text of the log lines, as character codes
TXT_OPEN == <<123>>  \* {
TXT_CLOSE == <<125>>  \* }
TXT_COMMA == <<44>>  \* ,
TXT_QUOTE == <<34>>  \* "
TXT_QUOTE_COMMA == <<34, 44>>  \* ",
TXT_TIMESTAMP == <<34, 116, 105, 109, 101, 115, 116, 97, 109, 112, 34, 58>>  \* "timestamp":
TXT_TYPE_KEYBOARD == <<34, 116, 121, 112, 101, 34, 58, 34, 107, 101, 121, 98, 111, 97, 114, 100, 34, 44>>  \* "type":"keyboard",
TXT_TYPE_MOUSE == <<34, 116, 121, 112, 101, 34, 58, 34, 109, 111, 117, 115, 101, 34, 44>>  \* "type":"mouse",
TXT_ACTION == <<34, 97, 99, 116, 105, 111, 110, 34, 58, 34>>  \* "action":"
TXT_KEY == <<34, 107, 101, 121, 34, 58, 34>>  \* "key":"
TXT_CHAR == <<44, 34, 99, 104, 97, 114, 34, 58, 34>>  \* ,"char":"
TXT_CHAR_NULL == <<44, 34, 99, 104, 97, 114, 34, 58, 110, 117, 108, 108>>  \* ,"char":null
TXT_X == <<34, 120, 34, 58>>  \* "x":
TXT_Y == <<34, 121, 34, 58>>  \* "y":
TXT_KEYUP == <<107, 101, 121, 117, 112>>  \* keyup
TXT_KEYDOWN == <<107, 101, 121, 100, 111, 119, 110>>  \* keydown
TXT_UP == <<117, 112>>  \* up
TXT_DOWN == <<100, 111, 119, 110>>  \* down
TXT_LEFT == <<108, 101, 102, 116>>  \* left
TXT_RIGHT == <<114, 105, 103, 104, 116>>  \* right
TXT_MIDDLE == <<109, 105, 100, 100, 108, 101>>  \* middle
TXT_VK_0X == <<86, 75, 95, 48, 120>>  \* VK_0x
TXT_DIGITS == <<48, 49, 50, 51, 52, 53, 54, 55, 56, 57, 97, 98, 99, 100, 101, 102>>  \* 0123456789abcdef
TXT_NULL == <<110, 117, 108, 108>>  \* null
TXT_MINUS == <<45>>  \* -

\* event_logger.cpp:106-150, the named keys: the virtual key and its name as
\* character codes
KeyNames ==
    { <<32, <<83, 80, 65, 67, 69>>>>,  \* VK_SPACE "SPACE"
      <<13, <<69, 78, 84, 69, 82>>>>,  \* VK_RETURN "ENTER"
      <<8, <<66, 65, 67, 75, 83, 80, 65, 67, 69>>>>,  \* VK_BACK "BACKSPACE"
      <<9, <<84, 65, 66>>>>,  \* VK_TAB "TAB"
      <<27, <<69, 83, 67>>>>,  \* VK_ESCAPE "ESC"
      <<46, <<68, 69, 76, 69, 84, 69>>>>,  \* VK_DELETE "DELETE"
      <<45, <<73, 78, 83, 69, 82, 84>>>>,  \* VK_INSERT "INSERT"
      <<36, <<72, 79, 77, 69>>>>,  \* VK_HOME "HOME"
      <<35, <<69, 78, 68>>>>,  \* VK_END "END"
      <<33, <<80, 65, 71, 69, 95, 85, 80>>>>,  \* VK_PRIOR "PAGE_UP"
      <<34, <<80, 65, 71, 69, 95, 68, 79, 87, 78>>>>,  \* VK_NEXT "PAGE_DOWN"
      <<38, <<85, 80, 95, 65, 82, 82, 79, 87>>>>,  \* VK_UP "UP_ARROW"
      <<40, <<68, 79, 87, 78, 95, 65, 82, 82, 79, 87>>>>,  \* VK_DOWN "DOWN_ARROW"
      <<37, <<76, 69, 70, 84, 95, 65, 82, 82, 79, 87>>>>,  \* VK_LEFT "LEFT_ARROW"
      <<39, <<82, 73, 71, 72, 84, 95, 65, 82, 82, 79, 87>>>>,  \* VK_RIGHT "RIGHT_ARROW"
      <<16, <<83, 72, 73, 70, 84>>>>,  \* VK_SHIFT "SHIFT"
      <<17, <<67, 84, 82, 76>>>>,  \* VK_CONTROL "CTRL"
      <<18, <<65, 76, 84>>>>,  \* VK_MENU "ALT"
      <<20, <<67, 65, 80, 83, 95, 76, 79, 67, 75>>>>,  \* VK_CAPITAL "CAPS_LOCK"
      <<91, <<76, 69, 70, 84, 95, 87, 73, 78>>>>,  \* VK_LWIN "LEFT_WIN"
      <<92, <<82, 73, 71, 72, 84, 95, 87, 73, 78>>>>,  \* VK_RWIN "RIGHT_WIN"
      <<112, <<70, 49>>>>,  \* VK_F1 "F1"
      <<113, <<70, 50>>>>,  \* VK_F2 "F2"
      <<114, <<70, 51>>>>,  \* VK_F3 "F3"
      <<115, <<70, 52>>>>,  \* VK_F4 "F4"
      <<116, <<70, 53>>>>,  \* VK_F5 "F5"
      <<117, <<70, 54>>>>,  \* VK_F6 "F6"
      <<118, <<70, 55>>>>,  \* VK_F7 "F7"
      <<119, <<70, 56>>>>,  \* VK_F8 "F8"
      <<120, <<70, 57>>>>,  \* VK_F9 "F9"
      <<121, <<70, 49, 48>>>>,  \* VK_F10 "F10"
      <<122, <<70, 49, 49>>>>,  \* VK_F11 "F11"
      <<123, <<70, 49, 50>>>>,  \* VK_F12 "F12"
      <<186, <<83, 69, 77, 73, 67, 79, 76, 79, 78>>>>,  \* VK_OEM_1 "SEMICOLON"
      <<187, <<69, 81, 85, 65, 76, 83>>>>,  \* VK_OEM_PLUS "EQUALS"
      <<188, <<67, 79, 77, 77, 65>>>>,  \* VK_OEM_COMMA "COMMA"
      <<189, <<77, 73, 78, 85, 83>>>>,  \* VK_OEM_MINUS "MINUS"
      <<190, <<80, 69, 82, 73, 79, 68>>>>,  \* VK_OEM_PERIOD "PERIOD"
      <<191, <<83, 76, 65, 83, 72>>>>,  \* VK_OEM_2 "SLASH"
      <<192, <<66, 65, 67, 75, 84, 73, 67, 75>>>>,  \* VK_OEM_3 "BACKTICK"
      <<219, <<76, 69, 70, 84, 95, 66, 82, 65, 67, 75, 69, 84>>>>,  \* VK_OEM_4 "LEFT_BRACKET"
      <<220, <<66, 65, 67, 75, 83, 76, 65, 83, 72>>>>,  \* VK_OEM_5 "BACKSLASH"
      <<221, <<82, 73, 71, 72, 84, 95, 66, 82, 65, 67, 75, 69, 84>>>>,  \* VK_OEM_6 "RIGHT_BRACKET"
      <<222, <<81, 85, 79, 84, 69>>>> }  \* VK_OEM_7 "QUOTE"

\* A number as operator<< writes it in decimal, as character codes
RECURSIVE Decimal(_)
Decimal(n) ==
    IF n < 0 THEN TXT_MINUS \o Decimal(0 - n)
    ELSE IF n < 10 THEN <<TXT_DIGITS[n + 1]>>
    ELSE Decimal(n \div 10) \o <<TXT_DIGITS[(n % 10) + 1]>>

\* A number as operator<< writes it under std::hex, as character codes
RECURSIVE Hex(_)
Hex(n) ==
    IF n < 16 THEN <<TXT_DIGITS[n + 1]>>
    ELSE Hex(n \div 16) \o <<TXT_DIGITS[(n % 16) + 1]>>

\* event_logger.cpp:90-158; the name, as character codes
VKeyToKeyName(vKey) ==
    IF vKey >= VK_A /\ vKey <= VK_Z THEN <<vKey>>
    ELSE IF vKey >= VK_0 /\ vKey <= VK_9 THEN <<vKey>>
    ELSE IF \E e \in KeyNames : e[1] = vKey
    THEN (CHOOSE e \in KeyNames : e[1] = vKey)[2]
    ELSE TXT_VK_0X \o Hex(vKey)

\* event_logger.cpp:46-59, the line of a keyboard event; charValue is written
\* between quotes as it is
KeyboardJson(timestamp, action, keyName, charValue) ==
    TXT_OPEN
    \o TXT_TIMESTAMP \o Decimal(timestamp) \o TXT_COMMA
    \o TXT_TYPE_KEYBOARD
    \o TXT_ACTION \o action \o TXT_QUOTE_COMMA
    \o TXT_KEY \o keyName \o TXT_QUOTE
    \o (IF charValue # <<>> THEN TXT_CHAR \o charValue \o TXT_QUOTE
        ELSE TXT_CHAR_NULL)
    \o TXT_CLOSE

\* event_logger.cpp:72-80, the line of a mouse button event
MouseJson(timestamp, action, cursorPos) ==
    TXT_OPEN
    \o TXT_TIMESTAMP \o Decimal(timestamp) \o TXT_COMMA
    \o TXT_TYPE_MOUSE
    \o TXT_ACTION \o action \o TXT_QUOTE_COMMA
    \o TXT_X \o Decimal(cursorPos.x) \o TXT_COMMA
    \o TXT_Y \o Decimal(cursorPos.y)
    \o TXT_CLOSE

\* The name of a mouse button as main.cpp:127-168 passes it, as character codes
ButtonText(button) ==
    CASE button = "left"   -> TXT_LEFT
      [] button = "right"  -> TXT_RIGHT
      [] button = "middle" -> TXT_MIDDLE

\* event_logger.cpp:240-248; writable is whether the log file opens
WriteLogEntryTruncates(lg, entry, writable) ==
    IF writable THEN [lg EXCEPT !.file = Append(@, entry)]
    ELSE [lg EXCEPT !.file = <<>>]

WriteLogEntry(lg, entry, writable) ==
    IF writable THEN [lg EXCEPT !.file = Append(@, entry)] ELSE lg

\* event_logger.cpp:32-62
LogKeyboardEventTracksFirst(lg, timestamp, vKey, isKeyUp, writable) ==
    LET l1 == UpdateModifierStates(lg, vKey, isKeyUp)
    IN  IF ~lg.initialized THEN l1
        ELSE WriteLogEntry(l1,
                 KeyboardJson(timestamp, IF isKeyUp THEN TXT_KEYUP ELSE TXT_KEYDOWN,
                              VKeyToKeyName(vKey), VKeyToChar(vKey, l1.shift, l1.caps)),
                 writable)

LogKeyboardEvent(lg, timestamp, vKey, isKeyUp, writable) ==
    IF ~lg.initialized THEN lg
    ELSE LET l1 == UpdateModifierStates(lg, vKey, isKeyUp)
             keyName == VKeyToKeyName(vKey)
             charValue == VKeyToChar(vKey, l1.shift, l1.caps)
             action == IF isKeyUp THEN TXT_KEYUP ELSE TXT_KEYDOWN
         IN  WriteLogEntry(l1, KeyboardJson(timestamp, action, keyName, charValue),
                           writable)

\* event_logger.cpp:64-83
LogMouseButtonEvent(lg, timestamp, button, isButtonUp, cursorPos, writable) ==
    IF ~lg.initialized THEN lg
    ELSE LET action == ButtonText(button) \o (IF isButtonUp THEN TXT_UP ELSE TXT_DOWN)
         IN  WriteLogEntry(lg, MouseJson(timestamp, action, cursorPos), writable)

\* The caller of the components is idle: no call of the injector is under way
CallerIdle == sendCall = NoCall

\* event_logger.cpp:12-20; caps is what GetKeyState(VK_CAPITAL) reports
LoggerInitialize ==
    /\ CallerIdle
    /\ loggerInitialized' = TRUE
    /\ s_shiftPressed' = FALSE
    /\ \E caps \in BOOLEAN : s_capsLockOn' = caps
    /\ logCall' = LogCallOf("Initialize", 0, FALSE, Logger)
    /\ UNCHANGED <<mainVars, injectorInitialized, sendVars, logFile, charOut>>

\* event_logger.cpp:22-30; the file is truncated when it opens
ClearLogFileCall ==
    /\ CallerIdle
    /\ \E opened \in BOOLEAN : logFile' = IF opened THEN <<>> ELSE logFile
    /\ logCall' = LogCallOf("ClearLogFile", 0, FALSE, Logger)
    /\ UNCHANGED <<mainVars, injectorInitialized, sendVars, loggerInitialized,
                   s_shiftPressed, s_capsLockOn, charOut>>

\* LogKeyboardEvent applied to the logger's statics and the log file; held
\* is the set of Shift keys physically down after the event
LogKeyboardObserved(vKey, isKeyUp, timestamp, writable, held) ==
    \E lg \in {LogKeyboardEvent(Logger, timestamp, vKey, isKeyUp, writable)} :
        /\ loggerInitialized' = lg.initialized
        /\ s_shiftPressed' = lg.shift
        /\ s_capsLockOn' = lg.caps
        /\ logFile' = lg.file
        /\ logCall' = [LogCallOf("LogKeyboardEvent", vKey, isKeyUp, Logger)
                          EXCEPT !.timestamp = timestamp, !.writable = writable,
                                 !.held = held]

LogKeyboardWrite(vKey, isKeyUp, timestamp, writable) ==
    LogKeyboardObserved(vKey, isKeyUp, timestamp, writable, {})

\* LogMouseButtonEvent applied to the logger's statics and the log file
LogMouseWrite(button, isButtonUp, timestamp, cursorPos, writable) ==
    \E lg \in {LogMouseButtonEvent(Logger, timestamp, button, isButtonUp,
                                   cursorPos, writable)} :
        /\ loggerInitialized' = lg.initialized
        /\ s_shiftPressed' = lg.shift
        /\ s_capsLockOn' = lg.caps
        /\ logFile' = lg.file
        /\ logCall' = [LogCallOf("LogMouseButtonEvent", 0, isButtonUp, Logger)
                          EXCEPT !.timestamp = timestamp, !.writable = writable,
                                 !.button = button, !.pos = cursorPos]

\* A call of LogKeyboardEvent, with a time of timestamps, while the log has
\* fewer than cap lines
LogKeyboardStep(vKey, isKeyUp, timestamps, cap) ==
    /\ CallerIdle
    /\ Len(logFile) < cap
    /\ \E timestamp \in timestamps,
          writable \in IF loggerInitialized THEN BOOLEAN ELSE {TRUE} :
          LogKeyboardWrite(vKey, isKeyUp, timestamp, writable)
    /\ UNCHANGED <<mainVars, injectorInitialized, sendVars, charOut>>

LogKeyboardCall(vKey, isKeyUp) == LogKeyboardStep(vKey, isKeyUp, Timestamps, MaxLog)

\* A call of LogMouseButtonEvent, with a time of timestamps and a cursor
\* position of positions, while the log has fewer than cap lines
LogMouseStep(button, isButtonUp, timestamps, positions, cap) ==
    /\ CallerIdle
    /\ Len(logFile) < cap
    /\ \E timestamp \in timestamps, cursorPos \in positions,
          writable \in IF loggerInitialized THEN BOOLEAN ELSE {TRUE} :
          LogMouseWrite(button, isButtonUp, timestamp, cursorPos, writable)
    /\ UNCHANGED <<mainVars, injectorInitialized, sendVars, charOut>>

LogMouseCall(button, isButtonUp) ==
    LogMouseStep(button, isButtonUp, Timestamps, CursorPositions, MaxLog)

\* Texts SendTextString is called with next to the logger
ShortTexts == {<<>>, <<CHAR_UPPER_A>>}

\* The injector and the logger, called in any order, before or after their
\* Initialize
NextComponents ==
    \/ InjectorInitialize
    \/ \E text \in ShortTexts : SendTextStringCall(text)
    \/ \E vkCode \in SendableKeys, isKeyUp \in BOOLEAN : SendVirtualKeyCall(vkCode, isKeyUp)
    \/ SendReturn
    \/ LoggerInitialize
    \/ ClearLogFileCall
    \/ \E vKey \in LogKeys, isKeyUp \in BOOLEAN : LogKeyboardCall(vKey, isKeyUp)
    \/ \E button \in LogButtons, isButtonUp \in BOOLEAN : LogMouseCall(button, isButtonUp)

SpecComponents == Init /\ [][NextComponents]_vars

\* The logger as main uses it: the log is cleared at startup, then events are
\* logged. The keys include the quote and the backslash keys and a key
\* without a name; the time and the position have several digits and a sign.
MaxLines == 2

LineKeys == {VK_SHIFT, VK_A, VK_OEM_5, VK_OEM_7, VK_LSHIFT}

LineTimestamps == {1234}

LinePositions == {[x |-> 0 - 5, y |-> 1080]}

\* main.cpp:410-413: EventLogger::Initialize, then EventLogger::ClearLogFile
EventLogStartup ==
    /\ loggerInitialized' = TRUE
    /\ s_shiftPressed' = FALSE
    /\ \E caps \in BOOLEAN : s_capsLockOn' = caps
    /\ \E opened \in BOOLEAN : logFile' = IF opened THEN <<>> ELSE logFile
    /\ logCall' = LogCallOf("ClearLogFile", 0, FALSE, Logger)

InitializeEventLog ==
    /\ ~loggerInitialized
    /\ EventLogStartup
    /\ UNCHANGED <<mainVars, injectorInitialized, sendVars, charOut>>

NextLog ==
    \/ InitializeEventLog
    \/ \E vKey \in LineKeys, isKeyUp \in BOOLEAN :
          loggerInitialized /\ LogKeyboardStep(vKey, isKeyUp, LineTimestamps, MaxLines)
    \/ \E button \in LogButtons, isButtonUp \in BOOLEAN :
          loggerInitialized
          /\ LogMouseStep(button, isButtonUp, LineTimestamps, LinePositions, MaxLines)

SpecLog == Init /\ [][NextLog]_vars

\* The logger fed with the events of a keyboard with two Shift keys: a key
\* goes up only if it is down, a key that is down may repeat its key-down
ShiftKeys == {VK_LSHIFT, VK_RSHIFT}

PhysicalKeys == ShiftKeys \cup {VK_A}

HeldAfter(held, vKey, isKeyUp) ==
    IF vKey \notin ShiftKeys THEN held
    ELSE IF isKeyUp THEN held \ {vKey}
    ELSE held \cup {vKey}

PhysicalKeyEvent(vKey, isKeyUp) ==
    /\ CallerIdle
    /\ loggerInitialized
    /\ Len(logFile) < MaxLines
    /\ (vKey \in ShiftKeys /\ isKeyUp) => vKey \in logCall.held
    /\ \E timestamp \in Timestamps, writable \in BOOLEAN :
          LogKeyboardObserved(vKey, isKeyUp, timestamp, writable,
                              HeldAfter(logCall.held, vKey, isKeyUp))
    /\ UNCHANGED <<mainVars, injectorInitialized, sendVars, charOut>>

NextShift ==
    \/ InitializeEventLog
    \/ \E vKey \in PhysicalKeys, isKeyUp \in BOOLEAN : PhysicalKeyEvent(vKey, isKeyUp)

SpecShift == Init /\ [][NextShift]_vars

\* The program with its event log: every WM_INPUT message is stored before
\* it is handled (main.cpp:204, 256-284)
RI_MOUSE_LEFT_BUTTON_DOWN == 1
RI_MOUSE_LEFT_BUTTON_UP == 2
RI_MOUSE_RIGHT_BUTTON_DOWN == 4
RI_MOUSE_RIGHT_BUTTON_UP == 8
RI_MOUSE_MIDDLE_BUTTON_DOWN == 16
RI_MOUSE_MIDDLE_BUTTON_UP == 32

\* The button transitions of RAWMOUSE.usButtonFlags, in the order main.cpp
\* tests them
ButtonTransitions ==
    <<[flag |-> RI_MOUSE_LEFT_BUTTON_DOWN, button |-> "left", up |-> FALSE],
      [flag |-> RI_MOUSE_LEFT_BUTTON_UP, button |-> "left", up |-> TRUE],
      [flag |-> RI_MOUSE_RIGHT_BUTTON_DOWN, button |-> "right", up |-> FALSE],
      [flag |-> RI_MOUSE_RIGHT_BUTTON_UP, button |-> "right", up |-> TRUE],
      [flag |-> RI_MOUSE_MIDDLE_BUTTON_DOWN, button |-> "middle", up |-> FALSE],
      [flag |-> RI_MOUSE_MIDDLE_BUTTON_UP, button |-> "middle", up |-> TRUE]>>

\* main.cpp:256-308: the transitions of a mouse message that are stored; the
\* else-if chain takes the first flag that is set and no other
StoredTransitions(usButtonFlags) ==
    LET set == {i \in 1 .. Len(ButtonTransitions) :
                   HasFlag(usButtonFlags, ButtonTransitions[i].flag)}
    IN  IF set = {} THEN <<>>
        ELSE <<ButtonTransitions[CHOOSE i \in set : \A j \in set : i <= j]>>

MaxStored == 2

\* VKey and Flags of the keyboard messages: right Ctrl, Shift and A going down
\* and up, Escape going down
StoredKeyEvents ==
    {<<VK_CONTROL, RI_KEY_E0>>, <<VK_CONTROL, RI_KEY_E0 + RI_KEY_BREAK>>,
     <<VK_SHIFT, 0>>, <<VK_SHIFT, RI_KEY_BREAK>>,
     <<VK_A, 0>>, <<VK_A, RI_KEY_BREAK>>, <<VK_ESCAPE, 0>>}

\* usButtonFlags of the mouse messages: no button, one transition, and both
\* buttons going down in one message
StoredButtonFlags ==
    {0, RI_MOUSE_LEFT_BUTTON_DOWN, RI_MOUSE_MIDDLE_BUTTON_UP,
     RI_MOUSE_LEFT_BUTTON_DOWN + RI_MOUSE_RIGHT_BUTTON_DOWN}

\* main.cpp:423-433, with InitializeEventLog
StoredMainInitialize ==
    /\ MainInitializeEffects
    /\ EventLogStartup
    /\ UNCHANGED <<sendVars, charOut>>

\* main.cpp:177-247: one WM_INPUT keyboard message, stored at main.cpp:204
\* before it is handled
StoredKeyboardInput(vKey, flags) ==
    /\ Len(logFile) < MaxStored
    /\ \E timestamp \in Timestamps, cursorPos \in CursorPositions,
          writable \in BOOLEAN :
        /\ KeyboardEffects(vKey, flags, FALSE, FALSE, timestamp, cursorPos)
        /\ LogKeyboardWrite(vKey, HasFlag(flags, RI_KEY_BREAK), timestamp, writable)
    /\ UNCHANGED <<sendVars, charOut>>

\* main.cpp:248-314: one WM_INPUT mouse message
StoredMouseInput(usButtonFlags) ==
    /\ pc = "loop"
    /\ g_running
    /\ Len(logFile) < MaxStored
    /\ calls' = <<>>
    /\ \E timestamp \in Timestamps, cursorPos \in CursorPositions :
        /\ ev' = [NoEvent EXCEPT !.kind = "mouse", !.buttonFlags = usButtonFlags,
                                 !.timestamp = timestamp, !.cursorPos = cursorPos]
        /\ LET stored == StoredTransitions(usButtonFlags)
           IN  IF stored = <<>>
               THEN /\ logCall' = LogCallOf("none", 0, FALSE, Logger)
                    /\ UNCHANGED <<loggerInitialized, s_shiftPressed, s_capsLockOn,
                                   logFile>>
               ELSE \E writable \in BOOLEAN :
                       LogMouseWrite(stored[1].button, stored[1].up, timestamp,
                                     cursorPos, writable)
    /\ UNCHANGED <<pc, g_running, s_specialKeys, s_specialKeyStates,
                   s_pendingSuggestion, s_hasPendingSuggestion, overlay,
                   injectorInitialized, ghost>>
    /\ UNCHANGED <<sendVars, charOut>>

NextStored ==
    \/ StoredMainInitialize
    \/ EnterLoop
    \/ \E e \in StoredKeyEvents : StoredKeyboardInput(e[1], e[2])
    \/ \E usButtonFlags \in StoredButtonFlags : StoredMouseInput(usButtonFlags)
    \/ ExitLoop

SpecStored == Init /\ [][NextStored]_vars

\* The program with its event log and the generate gesture: left Ctrl and A
\* on the keyboard, one and two button transitions in a mouse message; the
\* events received are counted
MaxReceived == 4

CountedKeyEvents ==
    {<<VK_CONTROL, 0>>, <<VK_CONTROL, RI_KEY_BREAK>>, <<VK_A, 0>>}

CountedButtonFlags ==
    {RI_MOUSE_LEFT_BUTTON_DOWN, RI_MOUSE_LEFT_BUTTON_DOWN + RI_MOUSE_RIGHT_BUTTON_DOWN}

\* The number of button transitions usButtonFlags carries
Transitions(usButtonFlags) ==
    Cardinality({i \in 1 .. Len(ButtonTransitions) :
                    HasFlag(usButtonFlags, ButtonTransitions[i].flag)})

\* main.cpp:177-247: one WM_INPUT keyboard message: StoreEvent at main.cpp:204,
\* then the gesture handling, the generator included, before the message
\* loop takes the next message
CountedKeyboardInput(vKey, flags) ==
    /\ logCall.received < MaxReceived
    /\ \E timestamp \in Timestamps, cursorPos \in CursorPositions,
          writable \in BOOLEAN :
        /\ KeyboardEffects(vKey, flags, FALSE, FALSE, timestamp, cursorPos)
        /\ \E lg \in {LogKeyboardEvent(Logger, timestamp, vKey,
                                       HasFlag(flags, RI_KEY_BREAK), writable)} :
            /\ loggerInitialized' = lg.initialized
            /\ s_shiftPressed' = lg.shift
            /\ s_capsLockOn' = lg.caps
            /\ logFile' = lg.file
            /\ logCall' = [LogCallOf("LogKeyboardEvent", vKey,
                                     HasFlag(flags, RI_KEY_BREAK), Logger)
                              EXCEPT !.timestamp = timestamp, !.writable = writable,
                                     !.received = logCall.received + 1,
                                     !.failed = logCall.failed \/ ~writable]
    /\ UNCHANGED <<sendVars, charOut>>

\* main.cpp:248-314: one WM_INPUT mouse message with button transitions
CountedMouseInput(usButtonFlags) ==
    /\ pc = "loop"
    /\ g_running
    /\ logCall.received + Transitions(usButtonFlags) <= MaxReceived
    /\ calls' = <<>>
    /\ \E timestamp \in Timestamps, cursorPos \in CursorPositions,
          writable \in BOOLEAN :
        /\ ev' = [NoEvent EXCEPT !.kind = "mouse", !.buttonFlags = usButtonFlags,
                                 !.timestamp = timestamp, !.cursorPos = cursorPos]
        /\ \E stored \in {StoredTransitions(usButtonFlags)} :
           \E lg \in {LogMouseButtonEvent(Logger, timestamp, stored[1].button,
                                          stored[1].up, cursorPos, writable)} :
            /\ loggerInitialized' = lg.initialized
            /\ s_shiftPressed' = lg.shift
            /\ s_capsLockOn' = lg.caps
            /\ logFile' = lg.file
            /\ logCall' = [LogCallOf("LogMouseButtonEvent", 0, stored[1].up, Logger)
                              EXCEPT !.timestamp = timestamp, !.writable = writable,
                                     !.button = stored[1].button, !.pos = cursorPos,
                                     !.received = logCall.received
                                                  + Transitions(usButtonFlags),
                                     !.failed = logCall.failed \/ ~writable]
    /\ UNCHANGED <<pc, g_running, s_specialKeys, s_specialKeyStates,
                   s_pendingSuggestion, s_hasPendingSuggestion, overlay,
                   injectorInitialized, ghost>>
    /\ UNCHANGED <<sendVars, charOut>>

NextCounted ==
    \/ StoredMainInitialize
    \/ EnterLoop
    \/ \E e \in CountedKeyEvents : CountedKeyboardInput(e[1], e[2])
    \/ \E usButtonFlags \in CountedButtonFlags : CountedMouseInput(usButtonFlags)

SpecCounted == Init /\ [][NextCounted]_vars

\* VKeyToChar on its own: the logger is initialized, the modifier state is any
InitChar ==
    /\ pc = "start"
    /\ g_running = TRUE
    /\ s_specialKeys = <<>>
    /\ s_specialKeyStates = <<>>
    /\ s_pendingSuggestion = ""
    /\ s_hasPendingSuggestion = FALSE
    /\ overlay = [initialized |-> FALSE, window |-> FALSE, current |-> "",
                  visible |-> FALSE]
    /\ injectorInitialized = FALSE
    /\ calls = <<>>
    /\ ev = NoEvent
    /\ ghost = [k \in Keys |-> NoHistory]
    /\ sendCall = NoCall
    /\ issued = <<>>
    /\ loggerInitialized = TRUE
    /\ s_shiftPressed \in BOOLEAN
    /\ s_capsLockOn \in BOOLEAN
    /\ logFile = <<>>
    /\ logCall = NoLogCall
    /\ charOut = NoChar

\* event_logger.cpp:41: VKeyToChar is applied to a virtual key
VKeyToCharCall(vKey) ==
    /\ charOut' = [vKey |-> vKey, char |-> VKeyToChar(vKey, s_shiftPressed, s_capsLockOn)]
    /\ UNCHANGED <<mainVars, injectorInitialized, sendVars, loggerInitialized,
                   s_shiftPressed, s_capsLockOn, logFile, logCall>>

NextChar == \E vKey \in AllVKeys : VKeyToCharCall(vKey)

SpecChar == InitChar /\ [][NextChar]_vars

-----------------------------------------------------------------------------
(* Properties *)

KeyUpOfSpecial == ev.kind = "keyboard" /\ ev.isKeyUp /\ ev.special

KeyDownOfSpecial == ev.kind = "keyboard" /\ ~ev.isKeyUp /\ ev.special

KeyDownOfRegular == ev.kind = "keyboard" /\ ~ev.isKeyUp /\ ~ev.special

Fired == FiredCount(calls) >= 1

Suppressed == Invoked(calls, "LogCombination")

StateOf(vKey) == s_specialKeyStates[GetSpecialKeyIndex(s_specialKeys, vKey) + 1]

\* C1: a key-down of a monitored special key followed by its key-up, with no
\* key-down of any other key delivered in between, invokes exactly one gesture
\* handler at the release, and hadInterveningKeys is false at that release.
C1_PressReleaseAloneFiresOnce ==
    (KeyUpOfSpecial /\ ev.gDown /\ ~ev.gAny)
        => (FiredCount(calls) = 1 /\ ~Suppressed /\ ~ev.hadAtRelease)

C1_Witness ==
    KeyUpOfSpecial /\ ev.gDown /\ ~ev.gAny /\ FiredCount(calls) = 1

\* C2: after key-down(S), key-down(K) of a key K that is not monitored and
\* key-up(S), with no key-down of S in between, the release of S invokes no
\* gesture handler, is reported as a combination, and hadInterveningKeys of S
\* is true at that release.
C2_RegularKeyDownSuppressesRelease ==
    (KeyUpOfSpecial /\ ev.gDown /\ ev.gReg)
        => (FiredCount(calls) = 0 /\ Suppressed /\ ev.hadAtRelease)

C2_Witness ==
    KeyUpOfSpecial /\ ev.gDown /\ ev.gReg /\ Suppressed /\ FiredCount(calls) = 0

\* C3: a gesture fires at the release of a held special key only if no key-down
\* of any other key, monitored or not, was delivered while it was held.
C3_FiresOnlyWithoutAnyOtherKeyDown ==
    (KeyUpOfSpecial /\ Fired) => ~ev.gAny

\* C4 as claimed: at every key-up of a monitored special key exactly one of
\* {gesture fired, gesture suppressed} occurs, decided by hadInterveningKeys.
C4_EveryKeyUpFiresOrSuppresses ==
    KeyUpOfSpecial => ((Fired # Suppressed) /\ (Fired <=> ~ev.hadAtRelease))

\* C4 as amended: at every key-up of a monitored special key whose isPressed is
\* true exactly one of {gesture fired, gesture suppressed} occurs, and it is
\* fired iff hadInterveningKeys is false at that key-up; at a key-up whose
\* isPressed is false neither occurs.
C4_ReleaseOfPressedKeyFiresOrSuppresses ==
    KeyUpOfSpecial =>
        IF ev.wasPressed
        THEN /\ Fired # Suppressed
             /\ Fired <=> ~ev.hadAtRelease
             /\ FiredCount(calls) <= 1
        ELSE ~Fired /\ ~Suppressed

C4_Witness ==
    KeyUpOfSpecial /\ ev.wasPressed /\ ev.hadAtRelease /\ Suppressed /\ ~Fired

\* C5: a key-up of a monitored special key whose isPressed is already false
\* invokes no gesture handler and leaves every tracking state (so isPressed
\* stays false), the pending suggestion and the overlay unchanged.
C5_SpuriousKeyUpIsNoOp ==
    [][ (ev'.kind = "keyboard" /\ ev'.isKeyUp /\ ev'.special /\ ~ev'.wasPressed)
            => /\ FiredCount(calls') = 0
               /\ s_specialKeyStates' = s_specialKeyStates
               /\ s_pendingSuggestion' = s_pendingSuggestion
               /\ s_hasPendingSuggestion' = s_hasPendingSuggestion
               /\ overlay' = overlay ]_vars

C5_Witness ==
    /\ KeyUpOfSpecial /\ ~ev.wasPressed
    /\ s_hasPendingSuggestion /\ overlay.visible
    /\ \E i \in 1 .. Len(s_specialKeyStates) : s_specialKeyStates[i].isPressed

\* C6: after every key-up of a monitored special key (fired, suppressed or not
\* pressed) that key is Idle: isPressed and hadInterveningKeys are false.
C6_KeyUpLeavesKeyIdle ==
    KeyUpOfSpecial =>
        (~StateOf(ev.vKey).isPressed /\ ~StateOf(ev.vKey).hadInterveningKeys)

C6_Witness ==
    KeyUpOfSpecial /\ ev.wasPressed /\ ev.hadAtRelease /\ ~StateOf(ev.vKey).isPressed

\* C7: every key-down of a monitored special key leaves isPressed true and
\* hadInterveningKeys false for it; a key-down that follows a suppressed
\* release of the key starts a cycle whose release fires the gesture when no
\* key-down of another key is delivered in between.
C7_KeyDownStartsCleanCycle ==
    /\ KeyDownOfSpecial =>
           (StateOf(ev.vKey).isPressed /\ ~StateOf(ev.vKey).hadInterveningKeys)
    /\ (KeyUpOfSpecial /\ ev.gDown /\ ev.gAfterSupp /\ ~ev.gAny)
           => (FiredCount(calls) = 1 /\ ~ev.hadAtRelease)

C7_Witness ==
    KeyUpOfSpecial /\ ev.gDown /\ ev.gAfterSupp /\ ~ev.gAny /\ FiredCount(calls) = 1

\* C8 as claimed: after a key-down of a key that is not monitored,
\* hadInterveningKeys is true for every monitored key that is held and for no
\* monitored key that is not held.
C8_EveryRegularKeyDownMarksHeldKeys ==
    KeyDownOfRegular =>
        \A i \in 1 .. Len(s_specialKeys) :
            s_specialKeyStates[i].hadInterveningKeys = s_specialKeyStates[i].isPressed

\* C8 as amended: the same for every key that is not monitored other than
\* Escape, whose key-down starts the shutdown and marks nothing.
C8_RegularKeyDownMarksHeldKeys ==
    (KeyDownOfRegular /\ ev.vKey # VK_ESCAPE) =>
        \A i \in 1 .. Len(s_specialKeys) :
            s_specialKeyStates[i].hadInterveningKeys = s_specialKeyStates[i].isPressed

C8_Witness ==
    /\ KeyDownOfRegular /\ ev.vKey # VK_ESCAPE
    /\ \E i, j, k \in 1 .. Len(s_specialKeys) :
        /\ i # j
        /\ s_specialKeyStates[i].isPressed /\ s_specialKeyStates[i].hadInterveningKeys
        /\ s_specialKeyStates[j].isPressed /\ s_specialKeyStates[j].hadInterveningKeys
        /\ ~s_specialKeyStates[k].isPressed /\ ~s_specialKeyStates[k].hadInterveningKeys

\* C9: a fired Ctrl gesture whose key-up is not extended runs the generator
\* handler and never the accept handler or the injector; an extended one runs
\* the accept handler and never the generator; a fired gesture of any other
\* monitored key runs neither the generator nor the injector and leaves the
\* pending suggestion and the overlay unchanged.
C9_GestureRouting ==
    [][ (ev'.kind = "keyboard" /\ ev'.isKeyUp /\ ev'.special /\ FiredCount(calls') >= 1)
            => IF ev'.vKey = VK_CONTROL
               THEN IF ev'.rightCtrl
                    THEN /\ Invoked(calls', "OnRightCtrlPressed")
                         /\ ~Invoked(calls', "OnLeftCtrlPressed")
                         /\ ~Invoked(calls', "system")
                    ELSE /\ Invoked(calls', "OnLeftCtrlPressed")
                         /\ Invoked(calls', "system")
                         /\ ~Invoked(calls', "OnRightCtrlPressed")
                         /\ ~Invoked(calls', "SendTextString")
               ELSE /\ ~Invoked(calls', "OnLeftCtrlPressed")
                    /\ ~Invoked(calls', "OnRightCtrlPressed")
                    /\ ~Invoked(calls', "system")
                    /\ ~Invoked(calls', "SendTextString")
                    /\ s_pendingSuggestion' = s_pendingSuggestion
                    /\ s_hasPendingSuggestion' = s_hasPendingSuggestion
                    /\ overlay' = overlay ]_vars

C9_Witness ==
    /\ KeyUpOfSpecial /\ ev.vKey = VK_LWIN /\ Fired
    /\ s_hasPendingSuggestion /\ overlay.visible

\* C10: after the generate handler a suggestion is pending iff the generator
\* exited with 0, its output file opened, a first line was read and the line
\* is not empty; then the pending text is that line and the overlay was asked
\* to show it; otherwise nothing is pending, whatever was pending before.
C10_GenerateOutcome ==
    Invoked(calls, "OnLeftCtrlPressed") =>
        LET ok == /\ ev.gen.exit = 0 /\ ev.gen.opened /\ ev.gen.readOk
                  /\ ev.gen.line # ""
        IN  /\ s_hasPendingSuggestion <=> ok
            /\ ok => /\ s_pendingSuggestion = ev.gen.line
                     /\ \E i \in 1 .. Len(calls) :
                            calls[i] = Call("ShowSuggestion", ev.gen.line)

C10_Witness ==
    Invoked(calls, "OnLeftCtrlPressed") /\ ev.prevHas /\ ~s_hasPendingSuggestion

\* Number of calls of the injector with the given text
SentCount(cs, text) ==
    Cardinality({i \in 1 .. Len(cs) : cs[i] = Call("SendTextString", text)})

\* C11: when the accept handler runs while a suggestion is pending, the
\* injector is called exactly once, with exactly the pending text; after the
\* event no suggestion is pending, the pending text is empty and the overlay is
\* hidden, whether the platform accepted the injection or not.
C11_AcceptInjectsPendingOnce ==
    [][ (Invoked(calls', "OnRightCtrlPressed") /\ s_hasPendingSuggestion)
            => /\ SentCount(calls', s_pendingSuggestion) = 1
               /\ Cardinality({i \in 1 .. Len(calls') :
                                   calls'[i].op = "SendTextString"}) = 1
               /\ ~s_hasPendingSuggestion'
               /\ s_pendingSuggestion' = ""
               /\ Invoked(calls', "HideSuggestion")
               /\ ~overlay'.visible
               /\ overlay'.current = "" ]_vars

C11_Witness ==
    /\ Invoked(calls, "OnRightCtrlPressed") /\ Invoked(calls, "SendTextString")
    /\ ~ev.accepted
    /\ ~s_hasPendingSuggestion /\ s_pendingSuggestion = "" /\ ~overlay.visible
    /\ overlay.initialized

\* C12: when the accept handler runs while no suggestion is pending, the
\* injector is not called, the pending suggestion and the overlay are as they
\* were before the event, and the program keeps running.
C12_AcceptWithoutPendingIsNoOp ==
    [][ (Invoked(calls', "OnRightCtrlPressed") /\ ~s_hasPendingSuggestion)
            => /\ ~Invoked(calls', "SendTextString")
               /\ ~Invoked(calls', "HideSuggestion")
               /\ ~Invoked(calls', "ShowSuggestion")
               /\ s_pendingSuggestion' = s_pendingSuggestion
               /\ s_hasPendingSuggestion' = s_hasPendingSuggestion
               /\ overlay' = overlay
               /\ g_running' /\ pc' = "loop" ]_vars

\* the accept handler ran after a failed generation left its stale text behind
C12_Witness ==
    /\ Invoked(calls, "OnRightCtrlPressed") /\ ~Invoked(calls, "SendTextString")
    /\ ~s_hasPendingSuggestion /\ s_pendingSuggestion # ""

\* C13 as stated: while the overlay is visible, every key-down of a key other
\* than extended Ctrl hides the overlay.
C13_EveryOtherKeyDownHides ==
    [][ (overlay.visible /\ ev'.kind = "keyboard" /\ ~ev'.isKeyUp /\ ~ev'.rightCtrl)
            => ~overlay'.visible ]_vars

\* C13, amended: while the overlay is visible, every key-down of a key other
\* than Ctrl (extended or not) and Escape hides the overlay.
C13_KeyDownHidesExceptCtrlAndEscape ==
    [][ (/\ overlay.visible /\ ev'.kind = "keyboard" /\ ~ev'.isKeyUp
         /\ ev'.vKey # VK_CONTROL /\ ev'.vKey # VK_ESCAPE)
            => (~overlay'.visible /\ overlay'.current = "") ]_vars

C13_Witness ==
    /\ ev.kind = "keyboard" /\ ~ev.isKeyUp /\ ev.prevVisible
    /\ ev.vKey \notin {VK_CONTROL, VK_ESCAPE}
    /\ ~overlay.visible /\ s_hasPendingSuggestion

\* C14: an event in which neither the accept handler nor the generate handler
\* runs leaves s_hasPendingSuggestion and the pending text as they were; this
\* includes key-downs that hide the overlay and suppressed releases.
C14_PendingNeverExpires ==
    [][ (~Invoked(calls', "OnRightCtrlPressed") /\ ~Invoked(calls', "OnLeftCtrlPressed"))
            => /\ s_hasPendingSuggestion' = s_hasPendingSuggestion
               /\ s_pendingSuggestion' = s_pendingSuggestion ]_vars

\* a suggestion is still pending after its overlay was hidden and a release of
\* a monitored key was suppressed
C14_Witness ==
    /\ s_hasPendingSuggestion /\ s_pendingSuggestion # ""
    /\ overlay.initialized /\ ~overlay.visible
    /\ KeyUpOfSpecial /\ Suppressed

-----------------------------------------------------------------------------
(* Properties of InputInjector *)

SentText == sendCall.op = "SendTextString" /\ sendCall.ready

Rejected(j) == ~issued[j].ok

\* What typing a character takes on the US keyboard layout
Typeable(c) ==
    \/ c \in CHAR_UPPER_A .. CHAR_UPPER_Z
    \/ c \in CHAR_LOWER_A .. CHAR_LOWER_Z
    \/ c \in CHAR_0 .. CHAR_9
    \/ c \in {CHAR_SPACE, CHAR_EXCLAMATION}

NeedsShift(c) == c \in CHAR_UPPER_A .. CHAR_UPPER_Z \/ c = CHAR_EXCLAMATION

KeyOf(c) ==
    CASE c \in CHAR_LOWER_A .. CHAR_LOWER_Z -> c - CHAR_LOWER_A + VK_A
      [] c = CHAR_EXCLAMATION -> CHAR_0 + 1
      [] OTHER -> c

KeyEvent(vk, up, ch) == [vk |-> vk, up |-> up, ch |-> ch]

\* The events the text from position ch on is typed with
RECURSIVE TypedFrom(_, _)
TypedFrom(text, ch) ==
    IF ch > Len(text) THEN <<>>
    ELSE LET c == text[ch]
             press == <<KeyEvent(KeyOf(c), FALSE, ch), KeyEvent(KeyOf(c), TRUE, ch)>>
             typed == IF ~Typeable(c) THEN <<>>
                      ELSE IF NeedsShift(c)
                      THEN <<KeyEvent(VK_SHIFT, FALSE, ch)>> \o press
                               \o <<KeyEvent(VK_SHIFT, TRUE, ch)>>
                      ELSE press
         IN  typed \o TypedFrom(text, ch + 1)

IssuedKeys == [j \in 1 .. Len(issued) |-> KeyEvent(issued[j].vk, issued[j].up, issued[j].ch)]

\* C15: the events SendTextString issues are, character by character in text
\* order and for the mappable characters only: shift-down if and only if the
\* character needs Shift, the key-down, the key-up, and shift-up if and only
\* if Shift was pressed for it; so "Ab1 " gives shift-down, A-down, A-up,
\* shift-up, B-down, B-up, 1-down, 1-up, space-down, space-up.
C15_EventsPerCharacterInOrder ==
    SentText => IssuedKeys = TypedFrom(sendCall.text, 1)

C15_Witness ==
    /\ SentText /\ sendCall.text = ExampleText
    /\ [j \in 1 .. Len(issued) |-> <<issued[j].vk, issued[j].up>>]
           = <<<<VK_SHIFT, FALSE>>, <<VK_A, FALSE>>, <<VK_A, TRUE>>, <<VK_SHIFT, TRUE>>,
               <<VK_A + 1, FALSE>>, <<VK_A + 1, TRUE>>,
               <<CHAR_0 + 1, FALSE>>, <<CHAR_0 + 1, TRUE>>,
               <<VK_SPACE, FALSE>>, <<VK_SPACE, TRUE>>>>

\* C16 as stated: once the platform rejected an event, no event for a later
\* character is issued, and the call reports failure.
C16_FailFast ==
    SentText =>
        /\ \A j, k \in 1 .. Len(issued) :
               (Rejected(j) /\ j < k) => issued[k].ch = issued[j].ch
        /\ (\E j \in 1 .. Len(issued) : Rejected(j)) => ~sendCall.result

\* C17 as stated: the call reports success exactly when every event it issued
\* was accepted, the shift-down and shift-up events included.
C17_SuccessIffAllAccepted ==
    SentText => (sendCall.result <=> \A j \in 1 .. Len(issued) : ~Rejected(j))

\* C18: no event is issued for a character without a mapping, the characters
\* after it are still typed, and a call in which no event was rejected reports
\* success; a text of unmappable characters only gives no event and success.
C18_UnmappableSkipped ==
    SentText =>
        /\ \A ch \in 1 .. Len(sendCall.text) :
              LET c == sendCall.text[ch]
              IN  IF Typeable(c)
                  THEN \E j \in 1 .. Len(issued) - 1 :
                          /\ IssuedKeys[j] = KeyEvent(KeyOf(c), FALSE, ch)
                          /\ IssuedKeys[j + 1] = KeyEvent(KeyOf(c), TRUE, ch)
                  ELSE \A j \in 1 .. Len(issued) : issued[j].ch # ch
        /\ (\A j \in 1 .. Len(issued) : ~Rejected(j)) => sendCall.result
        /\ (\A ch \in 1 .. Len(sendCall.text) : ~Typeable(sendCall.text[ch]))
               => (issued = <<>> /\ sendCall.result)

\* an unmappable character before a typed one, in a call that succeeded
C18_Witness ==
    /\ SentText /\ Len(sendCall.text) = 2
    /\ ~Typeable(sendCall.text[1]) /\ Typeable(sendCall.text[2])
    /\ Len(issued) = 2 /\ issued[1].ch = 2
    /\ sendCall.result

-----------------------------------------------------------------------------
(* Properties of uninitialized use and of EventLogger *)

\* C19: a call of SendTextString or SendVirtualKey made before
\* InputInjector::Initialize issues no synthetic event and returns false; a
\* call of the logger made before EventLogger::Initialize leaves the log file
\* and both modifier flags as they were.
C19_UninitializedUseIsNoOp ==
    [][ /\ (sendCall' # NoCall /\ ~sendCall'.ready)
              => (issued' = <<>> /\ ~sendCall'.result)
        /\ (~loggerInitialized /\ ~loggerInitialized')
              => UNCHANGED <<logFile, s_shiftPressed, s_capsLockOn>> ]_vars

\* a Shift key-down was logged and a text sent, both before Initialize
C19_Witness ==
    /\ ~injectorInitialized /\ ~loggerInitialized
    /\ sendCall.op = "SendTextString" /\ sendCall.text # <<>> /\ ~sendCall.ready
    /\ issued = <<>> /\ ~sendCall.result
    /\ logCall.op = "LogKeyboardEvent" /\ logCall.vKey = VK_SHIFT /\ ~logCall.up
    /\ ~logCall.ready
    /\ logFile = <<>> /\ ~s_shiftPressed

\* C20: for every letter virtual key 0x41..0x5A and every modifier state,
\* VKeyToChar returns the uppercase letter if and only if exactly one of
\* s_shiftPressed and s_capsLockOn is true, and the lowercase letter otherwise.
C20_LetterCase ==
    (charOut # NoChar /\ charOut.vKey \in VK_A .. VK_Z) =>
        LET upper == charOut.vKey
            lower == charOut.vKey + (CHAR_LOWER_A - CHAR_UPPER_A)
            one   == (s_shiftPressed /\ ~s_capsLockOn) \/ (~s_shiftPressed /\ s_capsLockOn)
        IN  /\ one => charOut.char = <<upper>>
            /\ ~one => charOut.char = <<lower>>

C20_Witness ==
    /\ charOut.vKey = VK_Z /\ s_shiftPressed /\ s_capsLockOn
    /\ charOut.char = <<CHAR_LOWER_Z>>

\* C21: for every digit virtual key 0x30..0x39, VKeyToChar returns with
\* s_shiftPressed the character of ")!@#$%^&*(" at the digit's position and
\* without it the digit itself, whatever s_capsLockOn is.
C21_DigitChars ==
    (charOut # NoChar /\ charOut.vKey \in VK_0 .. VK_9) =>
        LET d == charOut.vKey - VK_0
            shifted == <<41, 33, 64, 35, 36, 37, 94, 38, 42, 40>>
        IN  charOut.char = IF s_shiftPressed THEN <<shifted[d + 1]>>
                           ELSE <<CHAR_0 + d>>

\* '2' with Shift and caps lock gives '@'
C21_Witness ==
    /\ charOut.vKey = VK_0 + 2 /\ s_shiftPressed /\ s_capsLockOn
    /\ charOut.char = <<64>>

\* C22: after LogKeyboardEvent of VK_SHIFT, VK_LSHIFT or VK_RSHIFT,
\* s_shiftPressed is the negation of isKeyUp; a key-down of VK_CAPITAL
\* inverts s_capsLockOn and a key-up of it leaves it as it was; an event of any
\* other key leaves both flags as they were.
C22_ModifierTracking ==
    (logCall.op = "LogKeyboardEvent" /\ logCall.ready) =>
        IF logCall.vKey \in {VK_SHIFT, VK_LSHIFT, VK_RSHIFT}
        THEN s_shiftPressed = ~logCall.up
        ELSE IF logCall.vKey = VK_CAPITAL
        THEN s_capsLockOn = (IF logCall.up THEN logCall.prevCaps ELSE ~logCall.prevCaps)
        ELSE s_shiftPressed = logCall.prevShift /\ s_capsLockOn = logCall.prevCaps

\* the right Shift went up while caps lock is on
C22_Witness ==
    /\ logCall.op = "LogKeyboardEvent" /\ logCall.ready
    /\ logCall.vKey = VK_RSHIFT /\ logCall.up /\ logCall.prevShift
    /\ ~s_shiftPressed /\ s_capsLockOn


-----------------------------------------------------------------------------
(* The lines of the log as JSON *)

\* Character codes of the JSON grammar (RFC 8259)
JsonDigits == 48 .. 57

JsonHexDigits == JsonDigits \cup (65 .. 70) \cup (97 .. 102)

\* The characters that may follow a backslash in a string: " \ / b f n r t
JsonEscapes == {34, 92, 47, 98, 102, 110, 114, 116}

At(s, i) == IF i >= 1 /\ i <= Len(s) THEN s[i] ELSE 0 - 1

\* The position after the closing quote of the string whose content starts at
\* i, or 0 when the text from i is not the rest of a string
RECURSIVE StringEnd(_, _)
StringEnd(s, i) ==
    IF i > Len(s) THEN 0
    ELSE IF s[i] = 34 THEN i + 1
    ELSE IF s[i] = 92
    THEN IF At(s, i + 1) \in JsonEscapes THEN StringEnd(s, i + 2)
         ELSE IF At(s, i + 1) = 117 /\ \A j \in 2 .. 5 : At(s, i + j) \in JsonHexDigits
         THEN StringEnd(s, i + 6)
         ELSE 0
    ELSE IF s[i] < 32 THEN 0
    ELSE StringEnd(s, i + 1)

RECURSIVE DigitsEnd(_, _)
DigitsEnd(s, i) == IF At(s, i) \in JsonDigits THEN DigitsEnd(s, i + 1) ELSE i

\* The position after the integer that starts at i, or 0
NumberEnd(s, i) ==
    LET j == IF At(s, i) = 45 THEN i + 1 ELSE i
    IN  IF At(s, j) \notin JsonDigits THEN 0
        ELSE IF s[j] = 48 THEN j + 1
        ELSE DigitsEnd(s, j)

StartsWith(s, i, word) ==
    /\ i + Len(word) - 1 <= Len(s)
    /\ SubSeq(s, i, i + Len(word) - 1) = word

\* The position after the value (a string, an integer or null) that starts at
\* i, or 0
ValueEnd(s, i) ==
    IF At(s, i) = 34 THEN StringEnd(s, i + 1)
    ELSE IF StartsWith(s, i, TXT_NULL) THEN i + Len(TXT_NULL)
    ELSE NumberEnd(s, i)

\* The members "name":value from position i up to the closing brace, as pairs
\* of texts, or <<>> when the text from i is not a list of members followed
\* by the closing brace and the end of the line
RECURSIVE Members(_, _)
Members(s, i) ==
    LET k == IF At(s, i) = 34 THEN StringEnd(s, i + 1) ELSE 0
        v == IF k # 0 /\ At(s, k) = 58 THEN ValueEnd(s, k + 1) ELSE 0
        member == <<SubSeq(s, i, k - 1), SubSeq(s, k + 1, v - 1)>>
    IN  IF v = 0 THEN <<>>
        ELSE IF At(s, v) = 125 /\ v = Len(s) THEN <<member>>
        ELSE IF At(s, v) = 44
        THEN LET rest == Members(s, v + 1)
             IN  IF rest = <<>> THEN <<>> ELSE <<member>> \o rest
        ELSE <<>>

\* The members of a line that is one JSON object with members, <<>> for any
\* other line
JsonObject(s) == IF At(s, 1) = 123 THEN Members(s, 2) ELSE <<>>

Quoted(text) == TXT_QUOTE \o text \o TXT_QUOTE

IsJsonString(text) ==
    Len(text) >= 2 /\ text[1] = 34 /\ StringEnd(text, 2) = Len(text) + 1

\* The member name a piece of text starts with
NameOf(text) == SubSeq(text, 1, StringEnd(text, 2) - 1)

\* The line is a JSON object of the keyboard schema that carries the time and
\* the action of the call
KeyboardSchema(line, call) ==
    LET o == JsonObject(line)
    IN  /\ o # <<>>
        /\ Len(o) = 5
        /\ o[1] = <<NameOf(TXT_TIMESTAMP), Decimal(call.timestamp)>>
        /\ o[2] = <<Quoted(<<116, 121, 112, 101>>), Quoted(<<107, 101, 121, 98, 111, 97, 114, 100>>)>>
        /\ o[3] = <<NameOf(TXT_ACTION),
                    Quoted(IF call.up THEN TXT_KEYUP ELSE TXT_KEYDOWN)>>
        /\ o[4][1] = NameOf(TXT_KEY) /\ IsJsonString(o[4][2])
        /\ o[5][1] = Quoted(<<99, 104, 97, 114>>)
        /\ (o[5][2] = TXT_NULL \/ IsJsonString(o[5][2]))

\* The line is a JSON object of the mouse schema that carries the time, the
\* action and the position of the call
MouseSchema(line, call) ==
    LET o == JsonObject(line)
    IN  /\ o # <<>>
        /\ Len(o) = 5
        /\ o[1] = <<NameOf(TXT_TIMESTAMP), Decimal(call.timestamp)>>
        /\ o[2] = <<Quoted(<<116, 121, 112, 101>>), Quoted(<<109, 111, 117, 115, 101>>)>>
        /\ o[3] = <<NameOf(TXT_ACTION),
                    Quoted(ButtonText(call.button)
                           \o (IF call.up THEN TXT_UP ELSE TXT_DOWN))>>
        /\ o[4] = <<NameOf(TXT_X), Decimal(call.pos.x)>>
        /\ o[5] = <<NameOf(TXT_Y), Decimal(call.pos.y)>>

LoggedCall(call) ==
    call.op \in {"LogKeyboardEvent", "LogMouseButtonEvent"} /\ call.ready /\ call.writable

\* C23: after the startup clear, each event logged while the log is writable
\* adds exactly one line at the end of the log, after the lines of the earlier
\* events, and the line is a valid JSON object of the keyboard or mouse
\* schema, also when the char value is a double quote or a backslash.
C23_OneValidJsonLinePerEvent ==
    [][ (logCall' # logCall /\ LoggedCall(logCall')) =>
            /\ Len(logFile') = Len(logFile) + 1
            /\ SubSeq(logFile', 1, Len(logFile)) = logFile
            /\ IF logCall'.op = "LogKeyboardEvent"
               THEN KeyboardSchema(logFile'[Len(logFile')], logCall')
               ELSE MouseSchema(logFile'[Len(logFile')], logCall') ]_vars

\* The same for the keys whose char value is neither a double quote nor a
\* backslash
ValidJsonWithoutQuoteAndBackslash ==
    [][ (logCall' # logCall /\ LoggedCall(logCall')
         /\ ~(logCall'.op = "LogKeyboardEvent"
              /\ VKeyToChar(logCall'.vKey, s_shiftPressed', s_capsLockOn')
                     \in {<<34>>, <<92>>})) =>
            /\ Len(logFile') = Len(logFile) + 1
            /\ SubSeq(logFile', 1, Len(logFile)) = logFile
            /\ IF logCall'.op = "LogKeyboardEvent"
               THEN KeyboardSchema(logFile'[Len(logFile')], logCall')
               ELSE MouseSchema(logFile'[Len(logFile')], logCall') ]_vars

-----------------------------------------------------------------------------
(* The program and its event log *)

\* A step that handles one WM_INPUT message
MessageStep == pc = "loop" /\ pc' = "loop"

\* The line of the keyboard event observed, with the modifier state modifiers
KeyboardLineOf(e, shiftPressed, capsLockOn) ==
    KeyboardJson(e.timestamp, IF e.isKeyUp THEN TXT_KEYUP ELSE TXT_KEYDOWN,
                 VKeyToKeyName(e.vKey), VKeyToChar(e.vKey, shiftPressed, capsLockOn))

\* The lines of the button transitions from the i-th on that are set in the
\* mouse message observed
RECURSIVE MouseLinesOf(_, _)
MouseLinesOf(e, i) ==
    IF i > Len(ButtonTransitions) THEN <<>>
    ELSE LET t == ButtonTransitions[i]
         IN  (IF HasFlag(e.buttonFlags, t.flag)
              THEN <<MouseJson(e.timestamp,
                               ButtonText(t.button) \o (IF t.up THEN TXT_UP ELSE TXT_DOWN),
                               e.cursorPos)>>
              ELSE <<>>)
             \o MouseLinesOf(e, i + 1)

KeyboardLogged ==
    (MessageStep /\ ev'.kind = "keyboard" /\ logCall'.writable) =>
        logFile' = Append(logFile, KeyboardLineOf(ev', s_shiftPressed', s_capsLockOn'))

MouseLogged ==
    (MessageStep /\ ev'.kind = "mouse" /\ (logCall'.op = "none" \/ logCall'.writable)) =>
        logFile' = logFile \o MouseLinesOf(ev', 1)

\* C24: while the log is writable, every keyboard message handled adds exactly
\* one line, the line of that event, to the end of the log, whatever the
\* gesture handling does with it (a monitored key, a release that fires or is
\* suppressed, an intervening key, the Escape key-down), and every button
\* down or up transition of a mouse message adds exactly one line.
C24_EveryEventLoggedOnce == [][KeyboardLogged /\ MouseLogged]_vars

\* The keyboard half of it
KeyboardEventsLoggedOnce == [][KeyboardLogged]_vars

\* The mouse half of it, for the messages with at most one button transition
SingleTransitionsLoggedOnce ==
    [][Len(MouseLinesOf(ev', 1)) <= 1 => MouseLogged]_vars

\* The write of the event handled by the step failed
WriteFailed ==
    /\ MessageStep
    /\ logCall'.op \in {"LogKeyboardEvent", "LogMouseButtonEvent"}
    /\ logCall'.ready
    /\ ~logCall'.writable

TrackingState(states, keys, vKey) == states[GetSpecialKeyIndex(keys, vKey) + 1]

\* The event handled by the step did to the modifier state and to the gesture
\* detection what the code does with it, whether or not it was written
EventStillProcessed ==
    ev'.kind = "keyboard" =>
        /\ s_shiftPressed' = IF ev'.vKey \in {VK_SHIFT, VK_LSHIFT, VK_RSHIFT}
                             THEN ~ev'.isKeyUp ELSE s_shiftPressed
        /\ s_capsLockOn' = IF ev'.vKey = VK_CAPITAL /\ ~ev'.isKeyUp
                           THEN ~s_capsLockOn ELSE s_capsLockOn
        /\ g_running' = ~(ev'.vKey = VK_ESCAPE /\ ~ev'.isKeyUp)
        /\ (ev'.special /\ ~ev'.isKeyUp) =>
               TrackingState(s_specialKeyStates', s_specialKeys', ev'.vKey).isPressed
        /\ (ev'.special /\ ev'.isKeyUp) =>
               /\ ~TrackingState(s_specialKeyStates', s_specialKeys', ev'.vKey).isPressed
               /\ (ev'.wasPressed /\ ~ev'.hadAtRelease)
                      <=> (\E op \in GestureHandlers : Invoked(calls', op))
        /\ (~ev'.special /\ ~ev'.isKeyUp /\ g_running') =>
               \A i \in 1 .. Len(s_specialKeyStates) :
                   s_specialKeyStates[i].isPressed =>
                       s_specialKeyStates'[i].hadInterveningKeys

\* C25: a write that fails leaves the log as it was and drops that record
\* only: the same event still updates the modifier state and drives the
\* gesture detection, a later event whose write succeeds is appended, and
\* once the startup clear is done no step removes or alters a line of the
\* log.
C25_WriteFailureDropsOnlyThatRecord ==
    [][ /\ WriteFailed => (logFile' = logFile /\ EventStillProcessed)
        /\ KeyboardLogged
        /\ loggerInitialized =>
               (Len(logFile') >= Len(logFile)
                /\ SubSeq(logFile', 1, Len(logFile)) = logFile) ]_vars

\* A write failed while a line was in the log and Shift went down, another
\* failed for the right Ctrl key-down; the release of Ctrl fired its gesture
\* and was appended
C25_Witness ==
    /\ pc = "loop"
    /\ logCall.op = "LogKeyboardEvent" /\ logCall.afterFailure /\ logCall.writable
    /\ logCall.vKey = VK_CONTROL /\ logCall.up
    /\ Invoked(calls, "OnRightCtrlPressed")
    /\ s_shiftPressed
    /\ Len(logFile) = 2

-----------------------------------------------------------------------------
(* The list of monitored keys *)

Entries(keys, vKey) == {i \in 1 .. Len(keys) : keys[i] = vKey}

\* C26: AddSpecialKey with a key that is monitored already leaves exactly one
\* entry for that key and changes neither the list of keys nor the tracking
\* state of that key or of any other key.
C26_AddSpecialKeyIdempotent ==
    [][ (ev'.kind = "add" /\ IsSpecialKey(s_specialKeys, ev'.vKey)) =>
            /\ Cardinality(Entries(s_specialKeys', ev'.vKey)) = 1
            /\ s_specialKeys' = s_specialKeys
            /\ s_specialKeyStates' = s_specialKeyStates ]_vars

\* The left Windows key, added before, held and part of a combination, is
\* added again
C26_Witness ==
    /\ ev.kind = "add" /\ ev.vKey = VK_LWIN /\ ev.special
    /\ Cardinality(Entries(s_specialKeys, VK_LWIN)) = 1
    /\ \E i \in Entries(s_specialKeys, VK_LWIN) :
          s_specialKeyStates[i].isPressed /\ s_specialKeyStates[i].hadInterveningKeys
    /\ s_specialKeyStates[1].isPressed

-----------------------------------------------------------------------------
(* Shutdown *)

EscapeDown == ev.kind = "keyboard" /\ ev.vKey = VK_ESCAPE /\ ~ev.isKeyUp

QuitPosted == Invoked(calls, "PostMessage")

\* C27: an Escape key-down always ends the run (g_running is false and the
\* quit message is posted), whatever keys are held and whether or not a
\* suggestion is pending; it fires no gesture, runs no generator and injects
\* nothing; no other keyboard event and no mouse event ends the run.
C27_OnlyEscapeDownShutsDown ==
    /\ EscapeDown =>
           /\ ~g_running
           /\ QuitPosted
           /\ \A i \in 1 .. Len(calls) : calls[i].op = "PostMessage"
    /\ (pc = "loop" /\ (~g_running \/ QuitPosted)) => EscapeDown
    /\ pc \in {"start", "config"} => g_running

\* Escape goes down while a monitored key is held and a suggestion is pending
\* and displayed
C27_Witness ==
    /\ EscapeDown
    /\ ~g_running /\ QuitPosted
    /\ s_hasPendingSuggestion /\ overlay.visible
    /\ \E i \in 1 .. Len(s_specialKeyStates) : s_specialKeyStates[i].isPressed

-----------------------------------------------------------------------------
(* The tracking state of the monitored keys *)

ComboImpliesPressed ==
    \A i \in 1 .. Len(s_specialKeyStates) :
        s_specialKeyStates[i].hadInterveningKeys => s_specialKeyStates[i].isPressed

ComboSetOnlyWhilePressed ==
    \A i \in 1 .. Len(s_specialKeyStates) :
        (i <= Len(s_specialKeyStates')
         /\ ~s_specialKeyStates[i].hadInterveningKeys
         /\ s_specialKeyStates'[i].hadInterveningKeys)
            => (s_specialKeyStates[i].isPressed /\ s_specialKeyStates'[i].isPressed)

\* C28: in every reachable state a key whose had_intervening_key is true is
\* pressed, and had_intervening_key goes from false to true only in a step
\* that finds the key pressed and leaves it pressed.
C28_ComboOnlyWhilePressed == []ComboImpliesPressed /\ [][ComboSetOnlyWhilePressed]_vars

\* Shift is held and marked as part of a combination while Ctrl is not held
C28_Witness ==
    /\ Len(s_specialKeyStates) >= 2
    /\ s_specialKeyStates[2].isPressed /\ s_specialKeyStates[2].hadInterveningKeys
    /\ ~s_specialKeyStates[1].isPressed /\ ~s_specialKeyStates[1].hadInterveningKeys
    /\ ev.kind = "keyboard" /\ ~ev.special /\ ~ev.isKeyUp

\* The time and the position handed to the gesture handler of a release are
\* those of the key-down that found the key not held
FiredWithFirstKeyDown ==
    (KeyUpOfSpecial /\ Fired) =>
        (ev.pressTimestamp = ev.gTimestamp /\ ev.pressPosition = ev.gPosition)

\* A key-down of a monitored key that is held leaves its press time and press
\* position as they are
RepeatKeepsPressStamps ==
    \A i \in 1 .. Len(s_specialKeyStates) :
        (/\ i <= Len(s_specialKeyStates')
         /\ s_specialKeyStates[i].isPressed
         /\ s_specialKeyStates'[i].isPressed)
            => /\ s_specialKeyStates'[i].pressTimestamp
                      = s_specialKeyStates[i].pressTimestamp
               /\ s_specialKeyStates'[i].pressPosition
                      = s_specialKeyStates[i].pressPosition

\* C29: the press timestamp and the press position passed to a fired gesture
\* are those of the key-down that moved the key from Idle to Pressed; a
\* further key-down of the key while it is held changes neither.
C29_PressStampsOfFirstKeyDown ==
    []FiredWithFirstKeyDown /\ [][RepeatKeepsPressStamps]_vars

\* C30: a held key whose had_intervening_key is true keeps it until the
\* key-up of that key: no other step, a further key-down of the key
\* included, clears it.
C30_ComboStaysUntilKeyUp ==
    [][ \A i \in 1 .. Len(s_specialKeyStates) :
            (/\ i <= Len(s_specialKeyStates')
             /\ s_specialKeyStates[i].isPressed
             /\ s_specialKeyStates[i].hadInterveningKeys
             /\ ~s_specialKeyStates'[i].hadInterveningKeys)
                => (/\ ev'.kind = "keyboard"
                    /\ ev'.isKeyUp
                    /\ ev'.vKey = s_specialKeys[i]) ]_vars

-----------------------------------------------------------------------------
(* The overlay and the pending suggestion *)

\* C31: in every reachable state, an overlay that displays a suggestion
\* displays the text of the pending suggestion, and one is pending; a
\* generate gesture that ends without a pending suggestion leaves no earlier
\* suggestion displayed.
C31_DisplayedIsPending ==
    overlay.visible =>
        (s_hasPendingSuggestion /\ overlay.current = s_pendingSuggestion)

-----------------------------------------------------------------------------
(* Left and right Ctrl *)

\* C32: the accept gesture fires only at the end of a hold of Ctrl that an
\* extended key-down began, the generate gesture only at the end of one that
\* a non-extended key-down began, whatever the interleaving of the events of
\* the two Ctrl keys; a Ctrl key pressed and released with no other key-down
\* in between fires its own gesture.
C32_NoCrossTrigger ==
    /\ Invoked(calls, "OnRightCtrlPressed") => (ev.gDown /\ ev.gExtended)
    /\ Invoked(calls, "OnLeftCtrlPressed") => (ev.gDown /\ ~ev.gExtended)
    /\ (KeyUpOfSpecial /\ ev.vKey = VK_CONTROL /\ ev.gDown /\ ~ev.gAny
        /\ ev.rightCtrl = ev.gExtended) =>
           Invoked(calls, IF ev.rightCtrl THEN "OnRightCtrlPressed"
                          ELSE "OnLeftCtrlPressed")

\* Each gesture of Ctrl is that of the key whose key-up fires it
RoutedByKeyUp ==
    /\ Invoked(calls, "OnRightCtrlPressed") => (KeyUpOfSpecial /\ ev.rightCtrl)
    /\ Invoked(calls, "OnLeftCtrlPressed") => (KeyUpOfSpecial /\ ~ev.rightCtrl)

-----------------------------------------------------------------------------
(* The two Shift keys *)

\* C33: after every keyboard event, whatever the interleaving of the presses
\* and releases of the two Shift keys, shift_pressed is true exactly when at
\* least one Shift key is physically held.
C33_ShiftPressedIffShiftHeld ==
    (logCall.op = "LogKeyboardEvent" /\ logCall.ready) =>
        (s_shiftPressed <=> logCall.held # {})

-----------------------------------------------------------------------------
(* The log the generator reads *)

\* The generator was run by the event handled last
GeneratorInvoked == Invoked(calls, "system")

\* The last line of the log is the line of the event handled last
TriggerIsLastRecord ==
    /\ logFile # <<>>
    /\ ev.vKey = VK_CONTROL /\ ev.isKeyUp /\ ~ev.rightCtrl
    /\ logFile[Len(logFile)] = KeyboardLineOf(ev, s_shiftPressed, s_capsLockOn)

\* C34: when the generator is run by a generate gesture and no write failed,
\* the log holds one line for each keyboard event and each mouse button
\* transition received so far, and its last line is the key-up of the left
\* Ctrl key that fired the gesture. (The generator runs inside the handling
\* of that key-up, so no other event is handled while it runs.)
C34_LogCompleteWhenGeneratorRuns ==
    (GeneratorInvoked /\ ~logCall.failed) =>
        (Len(logFile) = logCall.received /\ TriggerIsLastRecord)

\* The part of it about the last record
GeneratorSeesTriggerLast ==
    (GeneratorInvoked /\ logCall.writable) => TriggerIsLastRecord

-----------------------------------------------------------------------------
(* One injection per suggestion *)

\* C35: a suggestion is injected at most once: since the last generation that
\* returned a suggestion at most one call of SendTextString was made, so an
\* accept gesture that follows another without a new generation between them
\* calls SendTextString not at all.
C35_SuggestionInjectedAtMostOnce ==
    /\ ev.sends <= 1
    /\ Invoked(calls, "SendTextString") => (ev.sends = 1 /\ ~s_hasPendingSuggestion)

\* A second accept gesture fired after the suggestion was sent, and sent nothing
C35_Witness ==
    /\ Invoked(calls, "OnRightCtrlPressed")
    /\ ~Invoked(calls, "SendTextString")
    /\ ev.sends = 1

-----------------------------------------------------------------------------
(* The synthetic Shift *)

ShiftDownAt(i) == issued[i].vk = VK_SHIFT /\ ~issued[i].up

ShiftUpAt(j) == issued[j].vk = VK_SHIFT /\ issued[j].up

\* C36: in every call of SendTextString, whatever the platform answers to
\* the events, each shift-down issued is followed, before the call returns,
\* by a shift-up issued for the same character, with no event of another
\* character and no other shift-down between the two.
C36_ShiftDownFollowedByShiftUp ==
    sendCall.op = "SendTextString" =>
        \A i \in 1 .. Len(issued) :
            ShiftDownAt(i) =>
                \E j \in (i + 1) .. Len(issued) :
                    /\ ShiftUpAt(j)
                    /\ \A k \in i .. j : issued[k].ch = issued[i].ch
                    /\ \A k \in (i + 1) .. j : ~ShiftDownAt(k)

\* A call whose first character needed Shift and had its key-down rejected,
\* and that went on to the second character
C36_Witness ==
    /\ sendCall.op = "SendTextString"
    /\ ~sendCall.result
    /\ Len(issued) > 4
    /\ ShiftDownAt(1)
    /\ ~issued[2].ok
    /\ ShiftUpAt(4)
    /\ issued[5].ch = 2

-----------------------------------------------------------------------------
(* Mouse messages and the special keys *)

\* The step handles a mouse message
MouseStep == MessageStep /\ ev'.kind = "mouse"

\* The step handles the key-up of a monitored key that was pressed with no
\* intervening key when the mouse message before it had been handled
ReleaseAfterClick ==
    /\ MessageStep
    /\ ev.kind = "mouse"
    /\ ev'.kind = "keyboard" /\ ev'.isKeyUp /\ ev'.special
    /\ IsSpecialKey(s_specialKeys, ev'.vKey)
    /\ TrackingState(s_specialKeyStates, s_specialKeys, ev'.vKey).isPressed
    /\ ~TrackingState(s_specialKeyStates, s_specialKeys, ev'.vKey).hadInterveningKeys

\* C37: a mouse message changes neither the list of monitored keys nor the
\* tracking state of any of them, so a click while a monitored key is held
\* does not set hadInterveningKeys, and the key-up that follows the click
\* fires the gesture of the key.
C37_MouseLeavesTrackingState ==
    [][ /\ MouseStep => UNCHANGED <<s_specialKeys, s_specialKeyStates>>
        /\ ReleaseAfterClick => \E op \in GestureHandlers : Invoked(calls', op)
      ]_vars

\* A click was handled while a monitored key is held with no intervening key
C37_Witness ==
    /\ ev.kind = "mouse"
    /\ \E i \in 1 .. Len(s_specialKeyStates) :
          /\ s_specialKeyStates[i].isPressed
          /\ ~s_specialKeyStates[i].hadInterveningKeys

-----------------------------------------------------------------------------
(* The list of monitored keys and the list of tracking states *)

NoDuplicates(keys) ==
    \A i, j \in 1 .. Len(keys) : keys[i] = keys[j] => i = j

\* The step is a call of AddSpecialKey with a key that was not monitored
AddsKey == pc' = pc /\ ev'.kind \in {"add", "early"} /\ ~ev'.special

\* C38: after any sequence of calls of Initialize and AddSpecialKey, no key is
\* twice in the list of monitored keys and the list of tracking states is as
\* long as the list of keys, so the index of every monitored key is that of a
\* tracking state; a key that AddSpecialKey adds is put at the end of the list
\* and starts not pressed, with no intervening key.
C38_KeysAndStatesAligned ==
    /\ [](/\ NoDuplicates(s_specialKeys)
          /\ Len(s_specialKeyStates) = Len(s_specialKeys)
          /\ \A i \in 1 .. Len(s_specialKeys) :
                GetSpecialKeyIndex(s_specialKeys, s_specialKeys[i]) + 1
                    \in DOMAIN s_specialKeyStates)
    /\ [][AddsKey =>
             /\ s_specialKeys' = Append(s_specialKeys, ev'.vKey)
             /\ s_specialKeyStates' = Append(s_specialKeyStates, SpecialKeyState)
         ]_vars

\* The left Windows key was added, Initialize was called again while it was
\* held, and the key is added once more
C38_Witness ==
    /\ ev.kind = "add" /\ ev.vKey = VK_LWIN /\ ~ev.special
    /\ ghost[VK_LWIN].down
    /\ Len(s_specialKeys) = 4

\* A key was added before Initialize, which then put the default keys in
\* its place
C38_WitnessEarly ==
    /\ ev.kind = "early" /\ ~ev.special
    /\ pc = "config"
    /\ Len(s_specialKeys) = 3

====
